---- MODULE Spec2Model ----
(***************************************************************************)
(* A model of agent-101: the planner/executor graph (PlannerExecutorApp),  *)
(* the tool-calling question/answer loop (BaseQAAgent.ask), the short-term *)
(* memory (ShortTermMemory), the browser agent (WebAgent.run), the file    *)
(* agent (FileAgent.analyze), the vector memory (ChromaVectorMemory), the  *)
(* calculator (evaluate_expression), the planner (Planner.plan) and the    *)
(* research review endpoint (research_review).                             *)
(*                                                                         *)
(* The components do not share state, so each has its own specification    *)
(* (SpecGraph, SpecQA, SpecSTM, SpecWeb, SpecFile, SpecVMem, SpecCalc,     *)
(* SpecPlanner, SpecReview) in which the other components stay idle; Spec  *)
(* is their interleaving. SpecRequests is the part of SpecGraph that the   *)
(* callers of PlannerExecutorApp take: the graph has no entry point, so    *)
(* PlannerExecutorApp() raises and the node actions are never enabled.     *)
(***************************************************************************)
EXTENDS Integers, Sequences, FiniteSets, TLC

VARIABLES
    \* ---- PlannerExecutorApp: the AgentState fields and the graph run ----
    plan,               \* state["plan"]: the list of steps
    step_index,         \* state["step_index"]
    tool_outputs,       \* len(state["tool_outputs"])
    final_answer,       \* state["final_answer"]
    completed,          \* state["completed"]
    error,              \* state["error"]
    messages,           \* len(state["messages"])
    pending_tool_calls, \* state["pending_tool_calls"]
    node,               \* the graph node scheduled next (None: none, "END")
    supersteps,         \* number of nodes graph.invoke has run
    visited,            \* history: the nodes run so far, in order
    llm_log,            \* history: the LLM calls made so far, in order
    run_status,         \* "idle", "running", "returned" or the exception
                        \* PlannerExecutorApp() or run raised
    run_result,         \* the dict run returns
    requests,           \* history: the requests for a run, with their outcome
    \* ---- ShortTermMemory ----
    stm_messages,       \* self.messages: the list of {role, content}
    max_tokens,         \* self.max_tokens
    stm_added,          \* history: every message add was called with, in order
    stm_got,            \* what the last get returned
    \* ---- BaseQAAgent: one call of ask ----
    max_tool_steps,     \* self.max_tool_steps
    vmem_enabled,       \* self.vmem is not None
    qa_pc,              \* "start", "loop", "returned" or "raised"
    qa_step,            \* the loop variable `step` of the next iteration
    qa_result,          \* the local `result`: the last LLM response
    qa_messages,        \* len(messages), the context given to the LLM
    fc_calls,           \* history: calls of llm.function_call_chat so far
    qa_return,          \* the value ask returned
    qa_exc,             \* the exception ask raised
    vmem_adds,          \* history: the texts vmem.add was called with
    vmem_store,         \* self.vmem.vs: the collection, and what is on disk
    \* ---- WebAgent: one call of run, and its BrowserManager ----
    steps,              \* the argument of run: a list of action dicts
    web_pc,             \* "start", "loop", "finally", "returned" or "raised"
    web_i,              \* the index of the next step of the loop
    results,            \* the local list `results`
    errors,             \* the local list `errors`
    web_exc,            \* the exception run raised
    browser,            \* BrowserManager: which of _pw, browser, page are set
    browser_calls,      \* history: the BrowserManager methods called, in order
    web_attempts,       \* history: the steps attempted, with their outcome
    \* ---- FileAgent: one call of analyze ----
    fa_path,            \* the argument file_path: does it exist, its extension
    fa_pc,              \* "start", "returned" or "raised"
    fa_result,          \* the dict analyze returned
    fa_exc,             \* the exception analyze raised
    fa_calls,           \* history: the extractor and LLM calls made, in order
    fa_failures,        \* history: what failed during the call, in order
    \* ---- ChromaVectorMemory: a sequence of add and search calls ----
    vm_vs,              \* self.vs: the documents of the collection, and on disk
    vm_ops,             \* number of calls made so far
    vm_last,            \* history: the last call, what the store did, the result
    \* ---- evaluate_expression: one call ----
    calc_expr,          \* the argument: the tree ast.parse builds from it
    calc_pc,            \* "start", "returned" or "raised"
    calc_value,         \* the float evaluate_expression returned
    calc_exc,           \* the exception evaluate_expression raised
    calc_cause,         \* history: the exception raised inside the try block
    \* ---- Planner: one call of plan ----
    pl_chat,            \* what llm.chat does: it raises, or the text it returns
    pl_pc,              \* "start", "returned" or "raised"
    pl_return,          \* the value plan returned: its type and its items
    pl_exc,             \* the exception plan raised
    \* ---- POST /v1/research/review: one request ----
    rr_paths,           \* req.pdf_paths
    rr_pc,              \* "start", "loop", "markdown", "returned" or "raised"
    rr_i,               \* the index of the next path of the loop
    pdf_summaries,      \* the local list `pdf_summaries`
    rr_response,        \* pdf_summaries of the response returned
    rr_status,          \* the HTTP status of the answer
    rr_cause,           \* history: the step whose exception gave the HTTP 500
    rr_log              \* history: each path processed, with its outcome

graph_vars == <<plan, step_index, tool_outputs, final_answer, completed, error,
                messages, pending_tool_calls, node, supersteps, visited,
                llm_log, run_status, run_result, requests>>

stm_vars == <<stm_messages, max_tokens, stm_added, stm_got>>

qa_vars == <<max_tool_steps, vmem_enabled, qa_pc, qa_step, qa_result,
             qa_messages, fc_calls, qa_return, qa_exc, vmem_adds, vmem_store>>

web_vars == <<steps, web_pc, web_i, results, errors, web_exc, browser,
              browser_calls, web_attempts>>

file_vars == <<fa_path, fa_pc, fa_result, fa_exc, fa_calls, fa_failures>>

vm_vars == <<vm_vs, vm_ops, vm_last>>

calc_vars == <<calc_expr, calc_pc, calc_value, calc_exc, calc_cause>>

pl_vars == <<pl_chat, pl_pc, pl_return, pl_exc>>

rr_vars == <<rr_paths, rr_pc, rr_i, pdf_summaries, rr_response, rr_status,
             rr_cause, rr_log>>

vars == <<graph_vars, stm_vars, qa_vars, web_vars, file_vars, vm_vars,
          calc_vars, pl_vars, rr_vars>>

\* Python's None
None == "<None>"

-----------------------------------------------------------------------------
\* Bounds of the model

\* longest plan the planner's JSON array holds
MaxPlanLen == 3
\* most tool calls in one LLM response
MaxToolCalls == 1
\* most requests for a planner/executor run
MaxRequests == 4

\* most calls of ShortTermMemory.add in one run
MaxAdds == 3
\* largest max_tokens a ShortTermMemory is constructed with
MaxTokensArg == 3
\* largest max_tool_steps a BaseQAAgent is constructed with
MaxToolSteps == 3

\* longest list of steps given to WebAgent.run
MaxWebSteps == 2

\* most texts in one call of ChromaVectorMemory.add
MaxAddTexts == 2
\* most documents in the collection
MaxStored == 2
\* most calls of ChromaVectorMemory.add and search in one run
MaxVMemOps == 3

\* deepest nesting of operators in an expression given to the calculator
MaxDepth == 2

\* most paths in req.pdf_paths
MaxPaths == 3

\* most pages of a PDF given to FileAgent.analyze
MaxPages == 2
\* the latest chat call of one analyze that may be the one that raises
MaxChats == 2

\* Settings.max_context_tokens, the default token budget
MaxContextTokens == 4000

\* the default k of ChromaVectorMemory.search
DefaultK == 4

\* chunk_chars of extract_pdf_summary
ChunkChars == 3000
\* the length of the text_excerpt analyze keeps: text[:1000]
ExcerptChars == 1000
\* the length of the text summarize_text sends to the LLM: text[:8000]
SummaryChars == 8000

\* langgraph's default recursion_limit: the most supersteps graph.invoke runs
\* before it raises GraphRecursionError (run passes no config)
RecursionLimit == 25

-----------------------------------------------------------------------------
\* Inputs

\* the `range(n)` of Python as a set
Range(n) == 0 .. (n - 1)

SeqsUpTo(S, n) == UNION {[1 .. k -> S] : k \in 0 .. n}

\* tools the LLM may name; the last one is none of the registered tools
ToolNames == {"evaluate_expression", "web_search", "web_fetch", "unknown_tool"}
\* tc.function.arguments: a JSON object, or text json.loads rejects
ArgKinds == {"object", "malformed"}
ToolCalls == {[name |-> n, arguments |-> a] : n \in ToolNames, a \in ArgKinds}
\* a non-empty message.tool_calls
ToolCallLists == SeqsUpTo(ToolCalls, MaxToolCalls) \ {<<>>}

\* what LLMClient.chat gives the planner: it raises RuntimeError, or returns
\* text that is no JSON, JSON that is no array, or a JSON array
PlannerTexts ==
    {[json |-> "invalid", items |-> <<>>], [json |-> "object", items |-> <<>>]}
    \cup {[json |-> "array", items |-> [i \in 1 .. n |-> "step"]] :
            n \in 0 .. MaxPlanLen}

-----------------------------------------------------------------------------
\* Planner.plan: the parsed list, or RuntimeError

\* json.loads: JSONDecodeError, or the Python value of the JSON text
json_loads(text) ==
    IF text.json = "invalid"
    THEN [raises |-> TRUE, type |-> None, items |-> <<>>]
    ELSE [raises |-> FALSE,
          type |-> IF text.json = "array" THEN "list"
                   ELSE IF text.json = "object" THEN "dict"
                   ELSE IF text.json = "string" THEN "str"
                   ELSE IF text.json = "number" THEN "int"
                   ELSE IF text.json = "true" THEN "bool"
                   ELSE "NoneType",
          items |-> text.items]

\* a faulty variant of isinstance_list: every parsed value passes
isinstance_list_unchecked(value) == TRUE

\* isinstance(plan, list)
isinstance_list(value) == value.type = "list"

Planner_plan(chat) ==
    LET value == json_loads(chat.text)
        failed == [ok |-> FALSE, exc |-> "RuntimeError", plan |-> <<>>,
                   type |-> None]
    IN  IF chat.raises THEN failed
        ELSE IF value.raises THEN failed
        ELSE IF ~isinstance_list(value) THEN failed
        ELSE [ok |-> TRUE, exc |-> None, plan |-> value.items,
              type |-> value.type]

PlannerChats ==
    {[raises |-> TRUE, text |-> [json |-> "invalid", items |-> <<>>]]}
    \cup {[raises |-> FALSE, text |-> t] : t \in PlannerTexts}

-----------------------------------------------------------------------------
\* PlannerExecutorApp

\* _build_graph: the nodes added with graph.add_node
Nodes == {"plan", "choose", "execute"}

\* _build_graph: the unconditional edges plan -> choose and execute -> choose
graph_edge(n) == "choose"

\* _build_graph: the node graph.invoke starts from. _build_graph neither
\* calls set_entry_point nor adds an edge from START, so there is none.
entry_point == None

\* graph.compile() validates the graph: langgraph rejects a graph without an
\* entry point with ValueError
compile ==
    IF entry_point = None
    THEN [raised |-> TRUE, exc |-> "ValueError"]
    ELSE [raised |-> FALSE, exc |-> None]

\* PlannerExecutorApp(): Planner(), LLMClient() and list_tool_schemas(), then
\* self.graph = self._build_graph(), whose last statement is graph.compile()
PlannerExecutorApp_init == compile

\* _route_from_choose, on the state _node_choose returned
route_from_choose(st_completed, st_pending, st_step_index, st_plan) ==
    IF st_completed THEN "END"
    ELSE IF st_pending # <<>> THEN "execute"
    ELSE IF st_step_index < Len(st_plan) THEN "execute" ELSE "END"

\* graph.invoke runs one more node only below the recursion limit
MayStep == run_status = "running" /\ supersteps < RecursionLimit

\* the questions asked
RunQuestions == {"q1", "q2"}

\* What the caller gets when run has ended, by returning or with an
\* exception: plan_execute answers HTTP 200 or 500, the demo script prints
\* the result or logs the exception.
RunOutcome(via, how) ==
    IF via = "api"
    THEN IF how = "returned" THEN "HTTP 200" ELSE "HTTP 500"
    ELSE IF how = "returned" THEN "printed" ELSE "logged"

\* the request in progress gets its outcome
Respond(how) ==
    [requests EXCEPT ![Len(requests)].outcome =
        RunOutcome(requests[Len(requests)].via, how)]

\* no PlannerExecutorApp has been asked for yet
GraphInit ==
    /\ plan = <<>>
    /\ step_index = 0
    /\ tool_outputs = 0
    /\ final_answer = None
    /\ completed = FALSE
    /\ error = None
    /\ messages = 0
    /\ pending_tool_calls = <<>>
    /\ node = None
    /\ supersteps = 0
    /\ visited = <<>>
    /\ llm_log = <<>>
    /\ run_status = "idle"
    /\ run_result = [final_answer |-> None, plan |-> <<>>, tool_outputs |-> 0,
                     error |-> None]
    /\ requests = <<>>

\* run: the initial AgentState, and graph.invoke starts at the entry point
run(via, question) ==
    /\ plan' = <<>>
    /\ step_index' = 0
    /\ tool_outputs' = 0
    /\ final_answer' = None
    /\ completed' = FALSE
    /\ error' = None
    /\ messages' = 0
    /\ pending_tool_calls' = <<>>
    /\ node' = entry_point
    /\ supersteps' = 0
    /\ visited' = <<>>
    /\ llm_log' = <<>>
    /\ run_status' = "running"
    /\ requests' = Append(requests, [via |-> via, question |-> question,
                                     outcome |-> "running"])
    /\ UNCHANGED run_result

\* POST /v1/agent/plan-execute: PlannerExecutorApp() and run are inside the
\* try, and every exception becomes HTTP 500
plan_execute ==
    /\ UNCHANGED <<stm_vars, qa_vars, web_vars, file_vars, vm_vars, calc_vars,
                   pl_vars, rr_vars>>
    /\ run_status # "running"
    /\ Len(requests) < MaxRequests
    /\ \E question \in RunQuestions :
        IF PlannerExecutorApp_init.raised
        THEN /\ run_status' = PlannerExecutorApp_init.exc
             /\ requests' = Append(requests, [via |-> "api",
                                              question |-> question,
                                              outcome |-> "HTTP 500"])
             /\ UNCHANGED <<plan, step_index, tool_outputs, final_answer,
                            completed, error, messages, pending_tool_calls,
                            node, supersteps, visited, llm_log, run_result>>
        ELSE run("api", question)

\* scripts/demo_planner_executor.py, main: PlannerExecutorApp() is outside
\* the try, so its exception ends the script
demo_main ==
    /\ UNCHANGED <<stm_vars, qa_vars, web_vars, file_vars, vm_vars, calc_vars,
                   pl_vars, rr_vars>>
    /\ run_status # "running"
    /\ Len(requests) < MaxRequests
    /\ \E question \in RunQuestions :
        IF PlannerExecutorApp_init.raised
        THEN /\ run_status' = PlannerExecutorApp_init.exc
             /\ requests' = Append(requests, [via |-> "demo",
                                              question |-> question,
                                              outcome |-> PlannerExecutorApp_init.exc])
             /\ UNCHANGED <<plan, step_index, tool_outputs, final_answer,
                            completed, error, messages, pending_tool_calls,
                            node, supersteps, visited, llm_log, run_result>>
        ELSE run("demo", question)

node_plan ==
    /\ UNCHANGED <<stm_vars, qa_vars, web_vars, file_vars, vm_vars, calc_vars,
                   pl_vars, rr_vars>>
    /\ MayStep /\ node = "plan"
    /\ \E chat \in PlannerChats :
        LET p == Planner_plan(chat) IN
        /\ llm_log' = Append(llm_log, "plan")
        /\ IF ~p.ok
           THEN /\ error' = "plan_failed"
                /\ completed' = TRUE
                /\ UNCHANGED <<plan, step_index, messages, tool_outputs>>
           ELSE /\ plan' = p.plan
                /\ step_index' = 0
                /\ messages' = 3
                /\ tool_outputs' = 0
                /\ UNCHANGED <<error, completed>>
    /\ node' = graph_edge("plan")
    /\ supersteps' = supersteps + 1
    /\ visited' = Append(visited, "plan")
    /\ UNCHANGED <<final_answer, pending_tool_calls, run_status, run_result,
                   requests>>

\* _node_choose with the plan exhausted: the summarising llm.chat
node_choose_summarise ==
    /\ UNCHANGED <<stm_vars, qa_vars, web_vars, file_vars, vm_vars, calc_vars,
                   pl_vars, rr_vars>>
    /\ MayStep /\ node = "choose"
    /\ step_index >= Len(plan)
    /\ llm_log' = Append(llm_log, "summarise")
    /\ \E raises \in BOOLEAN :
        IF raises
        THEN /\ error' = "summarise_failed"
             /\ completed' = TRUE
             /\ UNCHANGED final_answer
        ELSE /\ final_answer' = "summary"
             /\ completed' = TRUE
             /\ UNCHANGED error
    /\ node' = route_from_choose(completed', pending_tool_calls, step_index, plan)
    /\ supersteps' = supersteps + 1
    /\ visited' = Append(visited, "choose")
    /\ UNCHANGED <<plan, step_index, tool_outputs, messages, pending_tool_calls,
                   run_status, run_result, requests>>

\* _node_choose on the current step: llm.function_call_chat fails
node_choose_fails ==
    /\ UNCHANGED <<stm_vars, qa_vars, web_vars, file_vars, vm_vars, calc_vars,
                   pl_vars, rr_vars>>
    /\ MayStep /\ node = "choose"
    /\ step_index < Len(plan)
    /\ llm_log' = Append(llm_log, "choose")
    /\ messages' = messages + 1
    /\ error' = "choose_failed"
    /\ completed' = TRUE
    /\ node' = route_from_choose(completed', pending_tool_calls, step_index, plan)
    /\ supersteps' = supersteps + 1
    /\ visited' = Append(visited, "choose")
    /\ UNCHANGED <<plan, step_index, tool_outputs, final_answer,
                   pending_tool_calls, run_status, run_result, requests>>

\* _node_choose on the current step: the LLM asks for tools
node_choose_tools ==
    /\ UNCHANGED <<stm_vars, qa_vars, web_vars, file_vars, vm_vars, calc_vars,
                   pl_vars, rr_vars>>
    /\ MayStep /\ node = "choose"
    /\ step_index < Len(plan)
    /\ llm_log' = Append(llm_log, "choose")
    /\ messages' = messages + 1
    /\ \E tool_calls \in ToolCallLists : pending_tool_calls' = tool_calls
    /\ node' = route_from_choose(completed, pending_tool_calls', step_index, plan)
    /\ supersteps' = supersteps + 1
    /\ visited' = Append(visited, "choose")
    /\ UNCHANGED <<plan, step_index, tool_outputs, final_answer, completed,
                   error, run_status, run_result, requests>>

\* _node_choose on the current step: the LLM answers in text, the step is done
node_choose_text ==
    /\ UNCHANGED <<stm_vars, qa_vars, web_vars, file_vars, vm_vars, calc_vars,
                   pl_vars, rr_vars>>
    /\ MayStep /\ node = "choose"
    /\ step_index < Len(plan)
    /\ llm_log' = Append(llm_log, "choose")
    /\ messages' = messages + 2
    /\ step_index' = step_index + 1
    /\ node' = route_from_choose(completed, pending_tool_calls, step_index', plan)
    /\ supersteps' = supersteps + 1
    /\ visited' = Append(visited, "choose")
    /\ UNCHANGED <<plan, tool_outputs, final_answer, completed, error,
                   pending_tool_calls, run_status, run_result, requests>>

\* _node_execute: json.loads of a call's arguments is outside the try
ExecuteRaises(calls) ==
    \E i \in 1 .. Len(calls) : calls[i].arguments = "malformed"

\* the number of calls before the first one whose arguments json.loads
\* rejects: their messages and outputs are appended, in place, before it
\* raises
CallsBeforeMalformed(calls) ==
    Cardinality({i \in 1 .. Len(calls) :
                    \A j \in 1 .. i : calls[j].arguments # "malformed"})

node_execute ==
    /\ UNCHANGED <<stm_vars, qa_vars, web_vars, file_vars, vm_vars, calc_vars,
                   pl_vars, rr_vars>>
    /\ MayStep /\ node = "execute"
    /\ IF ExecuteRaises(pending_tool_calls)
       THEN /\ messages' = messages + CallsBeforeMalformed(pending_tool_calls)
            /\ tool_outputs' =
                   tool_outputs + CallsBeforeMalformed(pending_tool_calls)
            /\ run_status' = "JSONDecodeError"
            /\ requests' = Respond("JSONDecodeError")
            /\ UNCHANGED <<pending_tool_calls, node>>
       ELSE /\ messages' = messages + Len(pending_tool_calls)
            /\ tool_outputs' = tool_outputs + Len(pending_tool_calls)
            /\ pending_tool_calls' = <<>>
            /\ node' = graph_edge("execute")
            /\ UNCHANGED <<run_status, requests>>
    /\ supersteps' = supersteps + 1
    /\ visited' = Append(visited, "execute")
    /\ UNCHANGED <<plan, step_index, final_answer, completed, error, llm_log,
                   run_result>>

\* graph.invoke: a node is still scheduled when the recursion limit is reached
graph_recursion_error ==
    /\ UNCHANGED <<stm_vars, qa_vars, web_vars, file_vars, vm_vars, calc_vars,
                   pl_vars, rr_vars>>
    /\ run_status = "running"
    /\ node \in Nodes
    /\ supersteps >= RecursionLimit
    /\ run_status' = "GraphRecursionError"
    /\ requests' = Respond("GraphRecursionError")
    /\ UNCHANGED <<plan, step_index, tool_outputs, final_answer, completed,
                   error, messages, pending_tool_calls, node, supersteps,
                   visited, llm_log, run_result>>

\* run: the graph reached END, the result dict is returned
run_return ==
    /\ UNCHANGED <<stm_vars, qa_vars, web_vars, file_vars, vm_vars, calc_vars,
                   pl_vars, rr_vars>>
    /\ run_status = "running"
    /\ node = "END"
    /\ run_status' = "returned"
    /\ requests' = Respond("returned")
    /\ run_result' = [final_answer |-> final_answer, plan |-> plan,
                      tool_outputs |-> tool_outputs, error |-> error]
    /\ UNCHANGED <<plan, step_index, tool_outputs, final_answer, completed,
                   error, messages, pending_tool_calls, node, supersteps,
                   visited, llm_log>>

-----------------------------------------------------------------------------
\* ShortTermMemory

\* Message contents are texts over the letters a and b.
Contents == {<<>>, <<"a">>, <<"b">>, <<"a", "a">>, <<"a", "b">>}
Roles == {"system", "user", "assistant"}
Messages == {[role |-> r, content |-> c] : r \in Roles, c \in Contents}

NL == "\n"

\* "\n".join(str(m.get("content", "")) for m in msgs)
RECURSIVE Join(_)
Join(msgs) ==
    IF msgs = <<>> THEN <<>>
    ELSE IF Len(msgs) = 1 THEN msgs[1].content
    ELSE msgs[1].content \o <<NL>> \o Join(Tail(msgs))

\* enc.encode: a byte-pair encoding. Letters and the newline are tokens, and
\* so are the merged pairs below, one of which spans the end of a line; the
\* text is split greedily from the left, so the token count of a joined text
\* is not the sum of the counts of its parts.
Merges == {<<"a", "a">>, <<"b", NL>>}

RECURSIVE Encode(_)
Encode(text) ==
    IF text = <<>> THEN <<>>
    ELSE IF Len(text) >= 2 /\ <<text[1], text[2]>> \in Merges
         THEN <<SubSeq(text, 1, 2)>> \o Encode(SubSeq(text, 3, Len(text)))
         ELSE <<SubSeq(text, 1, 1)>> \o Encode(Tail(text))

tokens_of_messages(msgs) == Len(Encode(Join(msgs)))

\* a faulty variant of pop_oldest: self.messages.pop()
pop_newest(msgs) == SubSeq(msgs, 1, Len(msgs) - 1)

\* self.messages.pop(0)
pop_oldest(msgs) == Tail(msgs)

\* a faulty variant of truncate_if_needed: `if` in place of `while`
truncate_once(msgs, budget) ==
    IF msgs # <<>> /\ tokens_of_messages(msgs) > budget
    THEN pop_oldest(msgs) ELSE msgs

\* _truncate_if_needed: while the list is non-empty and over budget, drop the
\* earliest message
RECURSIVE truncate_if_needed(_, _)
truncate_if_needed(msgs, budget) ==
    IF msgs # <<>> /\ tokens_of_messages(msgs) > budget
    THEN truncate_if_needed(pop_oldest(msgs), budget)
    ELSE msgs

\* ShortTermMemory.add: append, then truncate
ShortTermMemory_add(msgs, role, content, budget) ==
    truncate_if_needed(Append(msgs, [role |-> role, content |-> content]), budget)

\* ShortTermMemory.__init__: max_tokens or settings.max_context_tokens
\* (an argument of 0 stands for None as well: both are falsy)
ShortTermMemory_init(arg) == IF arg = 0 THEN MaxContextTokens ELSE arg

STMInit ==
    /\ stm_messages = <<>>
    /\ stm_added = <<>>
    /\ stm_got = <<>>
    /\ \E arg \in (-1) .. MaxTokensArg : max_tokens = ShortTermMemory_init(arg)

\* the memory of a component that is idle
STMIdle ==
    /\ stm_messages = <<>>
    /\ stm_added = <<>>
    /\ stm_got = <<>>
    /\ max_tokens = ShortTermMemory_init(0)

stm_add ==
    /\ UNCHANGED <<graph_vars, qa_vars, web_vars, file_vars, vm_vars,
                   calc_vars, pl_vars, rr_vars>>
    /\ Len(stm_added) < MaxAdds
    /\ \E m \in Messages :
        /\ stm_messages' = ShortTermMemory_add(stm_messages, m.role, m.content,
                                               max_tokens)
        /\ stm_added' = Append(stm_added, m)
    /\ UNCHANGED <<max_tokens, stm_got>>

\* ShortTermMemory.get: a copy of the list
stm_get ==
    /\ UNCHANGED <<graph_vars, qa_vars, web_vars, file_vars, vm_vars,
                   calc_vars, pl_vars, rr_vars>>
    /\ stm_got' = stm_messages
    /\ UNCHANGED <<stm_messages, max_tokens, stm_added>>

-----------------------------------------------------------------------------
\* ChromaVectorMemory

\* the metadata of a document: the one given to add, or none
Metadata == "{source}"
EmptyMetadata == "{}"

\* a document of the collection
Document(text, metadata) == [page_content |-> text, metadata |-> metadata]

\* self.vs when nothing was added: the collection and what is on disk
EmptyStore == [docs |-> <<>>, persisted |-> <<>>]

\* what the store does during one add
StoreOutcomes == {"ok", "add_texts raises", "persist raises"}

\* vs.add_texts followed by vs.persist; metadatas is <<>> for None
AddTexts(vs, texts, metadatas, outcome) ==
    LET docs == vs.docs \o [i \in 1 .. Len(texts) |->
                    Document(texts[i], IF metadatas = <<>> THEN EmptyMetadata
                                       ELSE metadatas[i])]
    IN  IF outcome = "add_texts raises" THEN vs
        ELSE IF outcome = "persist raises"
             THEN [vs EXCEPT !.docs = docs]
             ELSE [docs |-> docs, persisted |-> docs]

\* a faulty variant of ChromaVectorMemory_add: the failure is raised again
ChromaVectorMemory_add_propagates(vs, texts, metadatas, outcome) ==
    [vs |-> AddTexts(vs, texts, metadatas, outcome),
     exc |-> IF outcome = "ok" THEN None ELSE "Exception"]

\* ChromaVectorMemory.add: a failure of the store is logged, never raised
ChromaVectorMemory_add(vs, texts, metadatas, outcome) ==
    [vs |-> AddTexts(vs, texts, metadatas, outcome), exc |-> None]

\* ChromaVectorMemory.search: the documents found, or [] when the store fails
ChromaVectorMemory_search(docs, backend_ok) ==
    [value |-> IF backend_ok
               THEN [i \in 1 .. Len(docs) |->
                        [text |-> docs[i].page_content,
                         metadata |-> docs[i].metadata]]
               ELSE <<>>,
     exc |-> None]

-----------------------------------------------------------------------------
\* BaseQAAgent.ask

\* message.content of an LLM response
ContentValues == {None, "", " ", " answer "}

\* str.strip
strip(c) == IF c = " " THEN "" ELSE IF c = " answer " THEN "answer" ELSE c

\* the values of type str
IsStr(v) == v \in {"", " ", " answer ", "answer"}

\* LLMClient.function_call_chat returns {"content", "tool_calls"}
FcResults == {[content |-> c, tool_calls |-> t] :
                c \in ContentValues, t \in {<<>>} \cup ToolCallLists}

\* the local `result` before the first assignment
Unbound == [content |-> "<unbound>", tool_calls |-> <<>>]

\* the texts ask writes to the short-term memory
SystemContext == <<"a", "b">>
Questions == {<<"a">>, <<"b", "a">>}
MemoPrefix == <<"b", NL>>
StoredDocs == {<<>>, <<Document(<<"a">>, EmptyMetadata)>>,
               <<Document(<<"a">>, EmptyMetadata), Document(<<"a", "b">>, EmptyMetadata)>>}

\* a faulty variant of LoopContinues: one iteration too many
LoopContinuesOffByOne(step, n) == step \in Range(n + 1)

\* `for step in range(self.max_tool_steps)`: is there another iteration
LoopContinues(step, n) == step \in Range(n)

\* index of the first tool call whose arguments json.loads rejects, or 0
FirstMalformed(calls) ==
    IF \E i \in 1 .. Len(calls) : calls[i].arguments = "malformed"
    THEN CHOOSE i \in 1 .. Len(calls) :
            /\ calls[i].arguments = "malformed"
            /\ \A j \in 1 .. (i - 1) : calls[j].arguments # "malformed"
    ELSE 0

QAInit ==
    /\ max_tool_steps \in 0 .. MaxToolSteps
    /\ vmem_enabled \in BOOLEAN
    /\ qa_pc = "start"
    /\ qa_step = 0
    /\ qa_result = Unbound
    /\ qa_messages = 0
    /\ fc_calls = 0
    /\ qa_return = None
    /\ qa_exc = None
    /\ vmem_adds = <<>>
    /\ vmem_store = EmptyStore

QAIdle ==
    /\ max_tool_steps = 0
    /\ vmem_enabled = FALSE
    /\ qa_pc = "start"
    /\ qa_step = 0
    /\ qa_result = Unbound
    /\ qa_messages = 0
    /\ fc_calls = 0
    /\ qa_return = None
    /\ qa_exc = None
    /\ vmem_adds = <<>>
    /\ vmem_store = EmptyStore

\* ask up to the loop: the question goes to the short-term memory, with the
\* memories the vector store finds for it
ask_begin ==
    /\ UNCHANGED <<graph_vars, web_vars, file_vars, vm_vars, calc_vars,
                   pl_vars, rr_vars>>
    /\ qa_pc = "start"
    /\ \E question \in Questions, docs \in StoredDocs, backend_ok \in BOOLEAN :
        LET m1 == ShortTermMemory_add(stm_messages, "system", SystemContext,
                                      max_tokens)
            m2 == ShortTermMemory_add(m1, "user", question, max_tokens)
            memories == IF vmem_enabled
                        THEN ChromaVectorMemory_search(docs, backend_ok).value
                        ELSE <<>>
            memo == [role |-> "system",
                     content |-> MemoPrefix \o Join([i \in 1 .. Len(memories) |->
                                        [content |-> memories[i].text]])]
            m3 == IF memories # <<>>
                  THEN ShortTermMemory_add(m2, memo.role, memo.content, max_tokens)
                  ELSE m2
        IN  /\ stm_messages' = m3
            /\ stm_added' = stm_added
                    \o <<[role |-> "system", content |-> SystemContext],
                         [role |-> "user", content |-> question]>>
                    \o (IF memories # <<>> THEN <<memo>> ELSE <<>>)
            /\ stm_got' = m3
            /\ qa_messages' = Len(m3)
    /\ qa_pc' = "loop"
    /\ UNCHANGED <<max_tokens, max_tool_steps, vmem_enabled, qa_step, qa_result,
                   fc_calls, qa_return, qa_exc, vmem_adds, vmem_store>>

\* an iteration in which llm.function_call_chat raises RuntimeError
ask_llm_raises ==
    /\ UNCHANGED <<graph_vars, stm_vars, web_vars, file_vars, vm_vars,
                   calc_vars, pl_vars, rr_vars>>
    /\ qa_pc = "loop" /\ LoopContinues(qa_step, max_tool_steps)
    /\ fc_calls' = fc_calls + 1
    /\ qa_pc' = "raised"
    /\ qa_exc' = "RuntimeError"
    /\ UNCHANGED <<max_tool_steps, vmem_enabled, qa_step, qa_result, qa_messages,
                   qa_return, vmem_adds, vmem_store>>

\* an iteration in which the LLM asks for tools: each call is run and its
\* outcome appended to the context, then the loop continues
ask_tool_calls ==
    /\ UNCHANGED <<graph_vars, stm_vars, web_vars, file_vars, vm_vars,
                   calc_vars, pl_vars, rr_vars>>
    /\ qa_pc = "loop" /\ LoopContinues(qa_step, max_tool_steps)
    /\ \E result \in FcResults :
        /\ result.tool_calls # <<>>
        /\ qa_result' = result
        /\ fc_calls' = fc_calls + 1
        /\ LET bad == FirstMalformed(result.tool_calls) IN
           IF bad # 0
           THEN /\ qa_messages' = qa_messages + (bad - 1)
                /\ qa_pc' = "raised"
                /\ qa_exc' = "JSONDecodeError"
                /\ UNCHANGED qa_step
           ELSE /\ qa_messages' = qa_messages + Len(result.tool_calls)
                /\ qa_step' = qa_step + 1
                /\ UNCHANGED <<qa_pc, qa_exc>>
    /\ UNCHANGED <<max_tool_steps, vmem_enabled, qa_return, vmem_adds, vmem_store>>

\* an iteration in which the LLM asks for no tool: its text is the answer,
\* written to the vector memory and returned; an empty text is an error
ask_final ==
    /\ UNCHANGED <<graph_vars, stm_vars, web_vars, file_vars, vm_vars,
                   calc_vars, pl_vars, rr_vars>>
    /\ qa_pc = "loop" /\ LoopContinues(qa_step, max_tool_steps)
    /\ \E result \in FcResults, outcome \in StoreOutcomes :
        /\ result.tool_calls = <<>>
        /\ qa_result' = result
        /\ fc_calls' = fc_calls + 1
        /\ LET content == IF result.content = None THEN "" ELSE result.content
               answer == strip(content)
           IN IF answer = ""
              THEN /\ qa_pc' = "raised"
                   /\ qa_exc' = "RuntimeError"
                   /\ UNCHANGED <<qa_return, vmem_adds, vmem_store>>
              ELSE /\ IF vmem_enabled
                      THEN /\ vmem_adds' = Append(vmem_adds, <<answer>>)
                           /\ vmem_store' =
                                ChromaVectorMemory_add(vmem_store, <<answer>>,
                                    <<Metadata>>, outcome).vs
                      ELSE UNCHANGED <<vmem_adds, vmem_store>>
                   /\ qa_pc' = "returned"
                   /\ qa_return' = answer
                   /\ UNCHANGED qa_exc
    /\ UNCHANGED <<max_tool_steps, vmem_enabled, qa_step, qa_messages>>

\* the loop is over without an answer: result.get("content", ...) is returned
ask_exhausted ==
    /\ UNCHANGED <<graph_vars, stm_vars, web_vars, file_vars, vm_vars,
                   calc_vars, pl_vars, rr_vars>>
    /\ qa_pc = "loop" /\ ~LoopContinues(qa_step, max_tool_steps)
    /\ IF qa_result = Unbound
       THEN /\ qa_pc' = "raised"
            /\ qa_exc' = "UnboundLocalError"
            /\ UNCHANGED qa_return
       ELSE /\ qa_pc' = "returned"
            /\ qa_return' = qa_result.content
            /\ UNCHANGED qa_exc
    /\ UNCHANGED <<max_tool_steps, vmem_enabled, qa_step, qa_result, qa_messages,
                   fc_calls, vmem_adds, vmem_store>>

-----------------------------------------------------------------------------
\* web.actions.execute_action

\* a parameter of an action dict: absent, the empty string, or a value
ParamValues == {None, "", "x"}

Action(t, u, s, x, n) ==
    [type |-> t, url |-> u, selector |-> s, text |-> x, name |-> n]

\* the action dicts the model draws steps from: every supported type with its
\* parameters absent, empty or given, a type that is not supported, and a
\* dict without a type
WebActions ==
    {Action("goto", u, None, None, None) : u \in ParamValues}
    \cup {Action(t, None, s, None, None) :
            t \in {"wait_for_selector", "click", "extract_text"},
            s \in ParamValues}
    \cup {Action("fill", None, s, x, None) : s \in ParamValues, x \in {None, "x"}}
    \cup {Action("screenshot", None, None, None, n) : n \in ParamValues}
    \cup {Action("hover", None, None, None, None),
          Action(None, None, None, None, None)}

\* Python's `not v` for a parameter
Falsy(v) == v = None \/ v = ""

\* a faulty variant of RequiredParam: click does not check its selector
RequiredParam_unchecked_click(t) ==
    IF t = "goto" THEN "url"
    ELSE IF t \in {"wait_for_selector", "fill", "extract_text"}
         THEN "selector"
         ELSE None

\* the parameter execute_action requires for a type, or None
RequiredParam(t) ==
    IF t = "goto" THEN "url"
    ELSE IF t \in {"wait_for_selector", "fill", "click", "extract_text"}
         THEN "selector"
         ELSE None

SupportedTypes == {"goto", "wait_for_selector", "fill", "click",
                   "extract_text", "screenshot"}

\* execute_action(browser, action): the BrowserManager method it calls (None
\* when it calls none), whether it raises and what, and what it returns;
\* op_ok tells whether the browser operation succeeds
execute_action(action, op_ok) ==
    LET t == action.type
        req == RequiredParam(t)
    IN  IF t \notin SupportedTypes
        THEN [call |-> None, raises |-> TRUE, exc |-> "ValueError", output |-> None]
        ELSE IF req # None /\ Falsy(action[req])
        THEN [call |-> None, raises |-> TRUE, exc |-> "ValueError", output |-> None]
        ELSE IF ~op_ok
        THEN [call |-> t, raises |-> TRUE, exc |-> "BrowserError", output |-> None]
        ELSE [call |-> t, raises |-> FALSE, exc |-> None,
              output |-> IF t = "extract_text" THEN "inner text"
                         ELSE IF t = "screenshot"
                              THEN IF action.name = None THEN "page.png"
                                   ELSE action.name \o ".png"
                              ELSE ""]

-----------------------------------------------------------------------------
\* BrowserManager and WebAgent.run

\* BrowserManager.start: playwright starts, the browser is launched, a page
\* is opened; `reached` tells how far it gets before a failure
StartOutcomes == {"fails_playwright", "fails_launch", "fails_page", "ok"}
BrowserManager_start(reached) ==
    [pw |-> reached # "fails_playwright",
     browser |-> reached \in {"fails_page", "ok"},
     page |-> reached = "ok"]

\* a faulty variant of after_failure: the first failure ends the loop
after_failure_break(i, n) == n

\* WebAgent.run, the except clause of a step: the failure is recorded and the
\* loop goes on with the next step
after_failure(i, n) == i + 1

WebInit ==
    /\ steps \in SeqsUpTo(WebActions, MaxWebSteps)
    /\ web_pc = "start"
    /\ web_i = 0
    /\ results = <<>>
    /\ errors = <<>>
    /\ web_exc = None
    /\ browser = [pw |-> FALSE, browser |-> FALSE, page |-> FALSE]
    /\ browser_calls = <<>>
    /\ web_attempts = <<>>

WebIdle ==
    /\ steps = <<>>
    /\ web_pc = "start"
    /\ web_i = 0
    /\ results = <<>>
    /\ errors = <<>>
    /\ web_exc = None
    /\ browser = [pw |-> FALSE, browser |-> FALSE, page |-> FALSE]
    /\ browser_calls = <<>>
    /\ web_attempts = <<>>

\* run: self.browser.start(), before the try
web_start ==
    /\ UNCHANGED <<graph_vars, stm_vars, qa_vars, file_vars, vm_vars,
                   calc_vars, pl_vars, rr_vars>>
    /\ web_pc = "start"
    /\ browser_calls' = Append(browser_calls, "start")
    /\ \E reached \in StartOutcomes :
        /\ browser' = BrowserManager_start(reached)
        /\ IF reached = "ok"
           THEN web_pc' = "loop" /\ UNCHANGED web_exc
           ELSE web_pc' = "raised" /\ web_exc' = "BrowserError"
    /\ UNCHANGED <<steps, web_i, results, errors, web_attempts>>

\* run: one iteration of `for i, action in enumerate(steps)`
web_step ==
    /\ UNCHANGED <<graph_vars, stm_vars, qa_vars, file_vars, vm_vars,
                   calc_vars, pl_vars, rr_vars>>
    /\ web_pc = "loop"
    /\ web_i < Len(steps)
    /\ \E op_ok \in BOOLEAN :
        LET action == steps[web_i + 1]
            r == execute_action(action, op_ok)
        IN  /\ browser_calls' = IF r.call = None THEN browser_calls
                                ELSE Append(browser_calls, r.call)
            /\ web_attempts' = Append(web_attempts,
                                      [step |-> web_i, ok |-> ~r.raises,
                                       call |-> r.call, exc |-> r.exc])
            /\ IF r.raises
               THEN /\ errors' = Append(errors, [step |-> web_i,
                                        type |-> action.type, exc |-> r.exc])
                    /\ web_i' = after_failure(web_i, Len(steps))
                    /\ UNCHANGED results
               ELSE /\ results' = Append(results, [step |-> web_i,
                                        type |-> action.type, output |-> r.output])
                    /\ web_i' = web_i + 1
                    /\ UNCHANGED errors
    /\ UNCHANGED <<steps, web_pc, web_exc, browser>>

\* run: the loop is over, the finally clause is entered
web_loop_end ==
    /\ UNCHANGED <<graph_vars, stm_vars, qa_vars, file_vars, vm_vars,
                   calc_vars, pl_vars, rr_vars>>
    /\ web_pc = "loop"
    /\ web_i >= Len(steps)
    /\ web_pc' = "finally"
    /\ UNCHANGED <<steps, web_i, results, errors, web_exc, browser,
                   browser_calls, web_attempts>>

\* a faulty variant of web_finally: the browser is stopped only when no step
\* failed
web_finally_skip_on_errors ==
    /\ UNCHANGED <<graph_vars, stm_vars, qa_vars, file_vars, vm_vars,
                   calc_vars, pl_vars, rr_vars>>
    /\ web_pc = "finally"
    /\ browser_calls' = IF errors = <<>> THEN Append(browser_calls, "stop")
                        ELSE browser_calls
    /\ web_pc' = "returned"
    /\ UNCHANGED <<steps, web_i, results, errors, web_exc, browser, web_attempts>>

\* run: `finally: self.browser.stop()`, then the return; stop closes the
\* browser and stops playwright, and what either raises, run raises
web_finally ==
    /\ UNCHANGED <<graph_vars, stm_vars, qa_vars, file_vars, vm_vars,
                   calc_vars, pl_vars, rr_vars>>
    /\ web_pc = "finally"
    /\ browser_calls' = Append(browser_calls, "stop")
    /\ \E stop_ok \in BOOLEAN :
        IF stop_ok
        THEN web_pc' = "returned" /\ UNCHANGED web_exc
        ELSE web_pc' = "raised" /\ web_exc' = "BrowserError"
    /\ UNCHANGED <<steps, web_i, results, errors, browser, web_attempts>>

-----------------------------------------------------------------------------
\* FileAgent.analyze

\* File contents are texts over these characters: u stands for a URL, e for
\* an e-mail address, d for a date, x for any other word.
UrlChar == "u"
EmailChar == "e"
DateChar == "d"

\* The messages of analyze and its callees, in English:
\* "文件不存在"
MsgMissing == "file does not exist"
\* "不支持的或未知的文件类型"
MsgUnsupported == "unsupported or unknown file type"
\* "读取文本失败: ..."
MsgReadFailed == "reading the text failed"
\* "无法读取PDF: ..."
MsgPdfUnreadable == "cannot read the PDF"
\* the message of the PDF library's own exception (pypdf's PdfReadError,
\* e.g. "File has not been decrypted"), which no handler rewrites
MsgPdfLibrary == "PdfReadError"
\* "LLM chat 请求失败"
MsgChatFailed == "LLM chat request failed"

Extensions == {".pdf", ".PDF", ".docx", ".xlsx", ".xlsm", ".xls", ".txt",
               ".md", ".markdown", ".Md", ".exe", ""}
Paths == [exists : BOOLEAN, ext : Extensions]

\* str.lower on an extension
lower(ext) ==
    IF ext = ".PDF" THEN ".pdf" ELSE IF ext = ".Md" THEN ".md" ELSE ext

classify_file_type(ext) ==
    IF lower(ext) \in {".pdf"} THEN "pdf"
    ELSE IF lower(ext) \in {".docx"} THEN "word"
    ELSE IF lower(ext) \in {".xlsx", ".xlsm", ".xls"} THEN "excel"
    ELSE IF lower(ext) \in {".txt", ".md", ".markdown"} THEN "text"
    ELSE "unknown"

\* text[:n]
Prefix(text, n) == SubSeq(text, 1, IF Len(text) < n THEN Len(text) ELSE n)

\* str.strip on a text whose only whitespace is the newline
RECURSIVE strip_text(_)
strip_text(text) ==
    IF text = <<>> THEN <<>>
    ELSE IF Head(text) = NL THEN strip_text(Tail(text))
    ELSE IF text[Len(text)] = NL
         THEN strip_text(SubSeq(text, 1, Len(text) - 1))
         ELSE text

\* "\n\n".join(texts)
RECURSIVE JoinPages(_)
JoinPages(texts) ==
    IF texts = <<>> THEN <<>>
    ELSE IF Len(texts) = 1 THEN texts[1]
    ELSE texts[1] \o <<NL, NL>> \o JoinPages(Tail(texts))

\* A page of a PDF: whether page.extract_text succeeds, and the text it gives.
PageTexts == {<<>>, <<"u">>}
PageFails == [ok |-> FALSE, text |-> <<>>]
PdfPages == SeqsUpTo({[ok |-> TRUE, text |-> t] : t \in PageTexts}
                         \cup {PageFails}, MaxPages)

\* What opening the file gives: PdfReader(pdf_path) raises; or it returns a
\* reader whose `pages` cannot be counted (len(reader.pages) raises, as on an
\* encrypted file); or the pages can be read one by one.
PdfReaders == {"PdfReader raises", "reader.pages raises", "ok"}

\* extract_text_from_pdf: only PdfReader(pdf_path) is wrapped in RuntimeError;
\* len(reader.pages) is outside every try, its exception leaves as it is; a
\* page that fails contributes the empty text
extract_text_from_pdf(reader, pages) ==
    IF reader = "PdfReader raises"
    THEN [raised |-> TRUE, exc |-> MsgPdfUnreadable, text |-> <<>>]
    ELSE IF reader = "reader.pages raises"
    THEN [raised |-> TRUE, exc |-> MsgPdfLibrary, text |-> <<>>]
    ELSE [raised |-> FALSE, exc |-> None,
          text |-> strip_text(JoinPages(
                      [i \in 1 .. Len(pages) |->
                          IF pages[i].ok THEN pages[i].text ELSE <<>>]))]

RECURSIVE chunk_text(_, _)
chunk_text(text, max_chars) ==
    IF text = <<>> THEN <<>>
    ELSE <<Prefix(text, max_chars)>>
         \o chunk_text(SubSeq(text, Len(Prefix(text, max_chars)) + 1,
                              Len(text)), max_chars)

\* The LLM of one call of analyze: the number of the chat call that raises
\* (0 when none does) and the text the last chat call returns.
LLMs == [fail_at : 0 .. MaxChats, summary : {<<"x">>, <<"d">>}]

\* summarize_chunks: one chat call per chunk and one for the final summary
summarize_chunks(chunks, llm) ==
    IF llm.fail_at \in 1 .. Len(chunks) + 1
    THEN [raised |-> TRUE, exc |-> MsgChatFailed, summary |-> None,
          chats |-> llm.fail_at]
    ELSE [raised |-> FALSE, exc |-> None, summary |-> llm.summary,
          chats |-> Len(chunks) + 1]

\* summarize_text: one chat call on text[:8000]
summarize_text(text, llm) ==
    IF llm.fail_at = 1
    THEN [raised |-> TRUE, exc |-> MsgChatFailed, summary |-> None,
          chats |-> 1]
    ELSE [raised |-> FALSE, exc |-> None, summary |-> llm.summary,
          chats |-> 1]

\* _extract_entities: the distinct matches of the three patterns
extract_entities(text) ==
    [urls |-> {text[i] : i \in DOMAIN text} \cap {UrlChar},
     emails |-> {text[i] : i \in DOMAIN text} \cap {EmailChar},
     dates |-> {text[i] : i \in DOMAIN text} \cap {DateChar}]

\* the dict analyze starts from
initial_result(path) ==
    [file_path |-> path, file_type |-> "unknown", overview |-> <<>>,
     entities |-> [urls |-> {}, emails |-> {}, dates |-> {}],
     errors |-> <<>>]

Chats(n) == [i \in 1 .. n |-> "llm.chat"]

\* a faulty variant of on_exception: the exception is logged and raised again
on_exception_reraise(result, exc) ==
    [result |-> result, exc |-> exc]

\* the handler `except Exception as exc` of analyze
on_exception(result, exc) ==
    [result |-> [result EXCEPT !.errors = Append(@, exc)], exc |-> None]

\* What one call of analyze does: the dict it returns or the exception it
\* raises, the calls it makes and the failures that happen on the way.
Outcome(r, calls, failures) ==
    [result |-> r.result, exc |-> r.exc, calls |-> calls,
     failures |-> failures]

Failure(what, msg) == [what |-> what, msg |-> msg]

PageFailures(pages) ==
    SelectSeq([i \in 1 .. Len(pages) |->
                  IF pages[i].ok
                  THEN Failure("none", None) ELSE Failure("page", None)],
              LAMBDA f : f.what = "page")

analyze_pdf(result, reader, pages, llm) ==
    LET t == extract_text_from_pdf(reader, pages)
        s == summarize_chunks(chunk_text(t.text, ChunkChars), llm)
        excerpt == Prefix(t.text, ExcerptChars)
    IN  IF t.raised
        THEN Outcome(on_exception(result, t.exc),
                     <<"extract_text_from_pdf">>,
                     <<Failure(IF reader = "PdfReader raises"
                               THEN "open" ELSE "count", t.exc)>>)
        ELSE IF s.raised
        THEN Outcome(on_exception(result, s.exc),
                     <<"extract_text_from_pdf">> \o Chats(s.chats),
                     PageFailures(pages) \o <<Failure("llm", s.exc)>>)
        ELSE Outcome(
                [result |->
                    [result EXCEPT
                        !.overview = [type |-> "pdf",
                                      text_excerpt |-> excerpt,
                                      summary |-> s.summary],
                        !.entities = extract_entities(
                                        s.summary \o <<NL>> \o excerpt)],
                 exc |-> None],
                <<"extract_text_from_pdf">> \o Chats(s.chats),
                PageFailures(pages))

\* the word branch; text is what extract_word_text returns when it does
analyze_word(result, doc_ok, text, llm) ==
    LET s == summarize_text(Prefix(text, SummaryChars), llm)
    IN  IF ~doc_ok
        THEN Outcome(on_exception(result, "docx error"),
                     <<"extract_word_text">>,
                     <<Failure("open", "docx error")>>)
        ELSE IF s.raised
        THEN Outcome(on_exception(result, s.exc),
                     <<"extract_word_text">> \o Chats(s.chats),
                     <<Failure("llm", s.exc)>>)
        ELSE Outcome(
                [result |->
                    [result EXCEPT
                        !.overview = [type |-> "word",
                                      text_excerpt |->
                                          Prefix(text, ExcerptChars),
                                      summary |-> s.summary],
                        !.entities = extract_entities(
                                        text \o <<NL>> \o s.summary)],
                 exc |-> None],
                <<"extract_word_text">> \o Chats(s.chats),
                <<>>)

\* the excel branch; the entities stay empty
analyze_excel(result, book_ok, llm) ==
    LET s == summarize_text(<<"x">>, llm)
    IN  IF ~book_ok
        THEN Outcome(on_exception(result, "xlsx error"),
                     <<"extract_excel_overview">>,
                     <<Failure("open", "xlsx error")>>)
        ELSE IF s.raised
        THEN Outcome(on_exception(result, s.exc),
                     <<"extract_excel_overview">> \o Chats(s.chats),
                     <<Failure("llm", s.exc)>>)
        ELSE Outcome(
                [result |->
                    [result EXCEPT
                        !.overview = [type |-> "excel",
                                      structure |-> "sheets",
                                      summary |-> s.summary]],
                 exc |-> None],
                <<"extract_excel_overview">> \o Chats(s.chats),
                <<>>)

\* the text branch: a failed read is reported and the empty text summarised
analyze_text(result, read_ok, content, llm) ==
    LET text == IF read_ok THEN content ELSE <<>>
        read == IF read_ok
                THEN result
                ELSE [result EXCEPT !.errors = Append(@, MsgReadFailed)]
        failed == IF read_ok THEN <<>>
                  ELSE <<Failure("read", MsgReadFailed)>>
        s == summarize_text(Prefix(text, SummaryChars), llm)
    IN  IF s.raised
        THEN Outcome(on_exception(read, s.exc), Chats(s.chats),
                     failed \o <<Failure("llm", s.exc)>>)
        ELSE Outcome(
                [result |->
                    [read EXCEPT
                        !.overview = [type |-> "text",
                                      text_excerpt |->
                                          Prefix(text, ExcerptChars),
                                      summary |-> s.summary],
                        !.entities = extract_entities(
                                        text \o <<NL>> \o s.summary)],
                 exc |-> None],
                Chats(s.chats),
                failed)

FileTexts == {<<>>, <<"u", "x">>, <<"e", NL, "d">>}

FileInit ==
    /\ fa_path \in Paths
    /\ fa_pc = "start"
    /\ fa_result = None
    /\ fa_exc = None
    /\ fa_calls = <<>>
    /\ fa_failures = <<>>

FileIdle ==
    /\ fa_path = [exists |-> FALSE, ext |-> ""]
    /\ fa_pc = "start"
    /\ fa_result = None
    /\ fa_exc = None
    /\ fa_calls = <<>>
    /\ fa_failures = <<>>

\* analyze returns the dict or raises
Finish(o) ==
    /\ fa_pc' = IF o.exc = None THEN "returned" ELSE "raised"
    /\ fa_result' = IF o.exc = None THEN o.result ELSE None
    /\ fa_exc' = o.exc
    /\ fa_calls' = o.calls
    /\ fa_failures' = o.failures
    /\ UNCHANGED fa_path
    /\ UNCHANGED <<graph_vars, stm_vars, qa_vars, web_vars, vm_vars, calc_vars,
                   pl_vars, rr_vars>>

Classified == [initial_result(fa_path) EXCEPT
                  !.file_type = classify_file_type(fa_path.ext)]

\* analyze of a path that does not exist
analyze_missing ==
    /\ fa_pc = "start"
    /\ ~fa_path.exists
    /\ Finish(Outcome(
          [result |-> [initial_result(fa_path) EXCEPT
                          !.errors = Append(@, MsgMissing)],
           exc |-> None],
          <<>>, <<Failure("missing", MsgMissing)>>))

analyze_pdf_file ==
    /\ fa_pc = "start"
    /\ fa_path.exists
    /\ classify_file_type(fa_path.ext) = "pdf"
    /\ \E reader \in PdfReaders, pages \in PdfPages, llm \in LLMs :
          Finish(analyze_pdf(Classified, reader, pages, llm))

analyze_word_file ==
    /\ fa_pc = "start"
    /\ fa_path.exists
    /\ classify_file_type(fa_path.ext) = "word"
    /\ \E doc_ok \in BOOLEAN, text \in FileTexts, llm \in LLMs :
          Finish(analyze_word(Classified, doc_ok, text, llm))

analyze_excel_file ==
    /\ fa_pc = "start"
    /\ fa_path.exists
    /\ classify_file_type(fa_path.ext) = "excel"
    /\ \E book_ok \in BOOLEAN, llm \in LLMs :
          Finish(analyze_excel(Classified, book_ok, llm))

analyze_text_file ==
    /\ fa_pc = "start"
    /\ fa_path.exists
    /\ classify_file_type(fa_path.ext) = "text"
    /\ \E read_ok \in BOOLEAN, content \in FileTexts, llm \in LLMs :
          Finish(analyze_text(Classified, read_ok, content, llm))

analyze_unknown ==
    /\ fa_pc = "start"
    /\ fa_path.exists
    /\ classify_file_type(fa_path.ext) = "unknown"
    /\ Finish(Outcome(
          [result |-> [Classified EXCEPT
                          !.errors = Append(@, MsgUnsupported)],
           exc |-> None],
          <<>>, <<Failure("unsupported", MsgUnsupported)>>))

-----------------------------------------------------------------------------
\* ChromaVectorMemory as a component of its own

VMemTexts == SeqsUpTo({<<"a">>, <<"b">>}, MaxAddTexts)
NoCall == [op |-> None, outcome |-> None, found |-> <<>>, returned |-> <<>>,
           exc |-> None]

\* the sequences of distinct indices of 1 .. n, of length at most k
Picks(n, k) ==
    {s \in SeqsUpTo(1 .. n, IF k < n THEN k ELSE n) :
        \A i, j \in DOMAIN s : i # j => s[i] # s[j]}

VMemInit ==
    /\ vm_vs = EmptyStore
    /\ vm_ops = 0
    /\ vm_last = NoCall

VMemIdle == VMemInit

\* one call of add; the call returns, or raises what the operator says
vmem_add ==
    /\ vm_ops < MaxVMemOps
    /\ \E texts \in VMemTexts, with_metadata \in BOOLEAN,
          outcome \in StoreOutcomes :
        LET metadatas == IF with_metadata
                         THEN [i \in 1 .. Len(texts) |-> Metadata]
                         ELSE <<>>
            r == ChromaVectorMemory_add(vm_vs, texts, metadatas, outcome)
        IN  /\ Len(vm_vs.docs) + Len(texts) <= MaxStored
            /\ vm_vs' = r.vs
            /\ vm_last' = [op |-> "add", outcome |-> outcome, found |-> <<>>,
                           returned |-> <<>>, exc |-> r.exc]
    /\ vm_ops' = vm_ops + 1
    /\ UNCHANGED <<graph_vars, stm_vars, qa_vars, web_vars, file_vars,
                   calc_vars, pl_vars, rr_vars>>

\* one call of search: the store raises, or finds at most k of its documents
\* in an order of its own
vmem_search ==
    /\ vm_ops < MaxVMemOps
    /\ \E k \in {1, DefaultK}, backend_ok \in BOOLEAN :
       \E pick \in Picks(Len(vm_vs.docs), k) :
        LET found == [i \in 1 .. Len(pick) |-> vm_vs.docs[pick[i]]]
            r == ChromaVectorMemory_search(found, backend_ok)
        IN  vm_last' = [op |-> "search",
                        outcome |-> IF backend_ok THEN "ok"
                                    ELSE "similarity_search raises",
                        found |-> IF backend_ok THEN found ELSE <<>>,
                        returned |-> r.value, exc |-> r.exc]
    /\ vm_ops' = vm_ops + 1
    /\ UNCHANGED vm_vs
    /\ UNCHANGED <<graph_vars, stm_vars, qa_vars, web_vars, file_vars,
                   calc_vars, pl_vars, rr_vars>>

-----------------------------------------------------------------------------
\* evaluate_expression

\* The trees of ast.parse(expression, mode="eval"), as tuples:
\*   <<"Constant", c>>, <<"Name", x>>, <<"BinOp", op, left, right>>,
\*   <<"UnaryOp", op, operand>>;
\* <<"SyntaxError">> stands for an input ast.parse rejects.
\* FloorDiv and UAdd are operators the calculator does not support.
ConstantValues == {"0", "2", "True", "'a'"}
Leaves == {<<"Constant", c>> : c \in ConstantValues} \cup {<<"Name", "x">>}
BinOps == {"Add", "Sub", "Mult", "Div", "Pow", "FloorDiv"}
UnaryOps == {"USub", "UAdd"}

RECURSIVE Trees(_)
Trees(depth) ==
    IF depth = 0 THEN Leaves
    ELSE LET sub == Trees(depth - 1)
         IN  Leaves
             \cup {<<"BinOp", op, l, r>> : op \in BinOps, l \in sub, r \in sub}
             \cup {<<"UnaryOp", op, x>> : op \in UnaryOps, x \in sub}

\* the inputs whose trees are at most `depth` operators deep
Inputs(depth) == Trees(depth) \cup {<<"SyntaxError">>}

\* the keys of _OPS
OPS == {"Add", "Sub", "Mult", "Div", "Pow", "USub"}

\* isinstance(node.value, (int, float)): bool is a subclass of int
IsIntOrFloat(c) == c \in {"0", "2", "True"}

\* float(node.value) as a fraction; float(True) is 1.0
IntValue(c) == IF c = "0" THEN 0 ELSE IF c = "2" THEN 2 ELSE 1

\* The values of _eval are Python floats (IEEE doubles) and, for a negative
\* number raised to a fractional power, complex numbers. The model keeps
\*   Frac(n, d)           the double that is n/d exactly or, when d is no
\*                        power of two, n/d correctly rounded (a quotient);
\*                        |n| and d are at most MaxTracked;
\*   Approx(sign, lo, hi) some finite double x of that sign with
\*                        2^lo <= |x| <= 2^hi;
\*   Inf(sign), NaN       the infinities and not-a-number;
\*   Complex(part, lo, hi) a complex number z that is zero or has
\*                        2^lo <= |z| <= 2^hi; part says what else is known:
\*                        "im" its imaginary part is not zero, "nz" it is not
\*                        zero, "any" nothing.
\* An operation gives the set of its possible outcomes: one outcome where the
\* operands determine the double, several where only bounds are known. The
\* sign of a zero is not kept (-0.0 == 0.0, and both divide alike).
Abs(n) == IF n < 0 THEN -n ELSE n
Sgn(n) == IF n < 0 THEN -1 ELSE 1
Min(a, b) == IF a < b THEN a ELSE b
Max(a, b) == IF a > b THEN a ELSE b

RECURSIVE GCD(_, _)
GCD(a, b) == IF b = 0 THEN a ELSE GCD(b, a % b)

\* the largest numerator and denominator of a double kept as a fraction
MaxTracked == 16384
\* doubles are below 2^MaxExp, and 2^MinExp is the least positive double
MaxExp == 1024
MinExp == -1074
\* the length of a double's mantissa: doubles from 2^MantissaBits are integers
MantissaBits == 53
\* exponents are cut to +-ExpCap, which is beyond every double
ExpCap == 4096
\* complex results whose magnitude is within 2^ImSlack of the ends of the
\* range may have parts that overflow or underflow
ImSlack == 64

Frac(n, d) ==
    LET g == GCD(Abs(n), Abs(d))
        sign == IF d < 0 THEN -1 ELSE 1
    IN  [kind |-> "float", n |-> sign * (n \div g), d |-> sign * (d \div g)]

Approx(sign, lo, hi) == [kind |-> "approx", sign |-> sign, lo |-> lo, hi |-> hi]
Inf(sign) == [kind |-> "inf", sign |-> sign]
NaN == [kind |-> "nan"]
Complex(part, lo, hi) == [kind |-> "complex", part |-> part, lo |-> lo, hi |-> hi]

Zero == Frac(0, 1)
One == Frac(1, 1)
AnyComplex == Complex("any", MinExp, MaxExp)
ZeroComplex == Complex("any", MinExp, MinExp)
OneComplex == Complex("nz", 0, 0)

Returns(v) == [exc |-> None, v |-> v]
Raises(exc) == [exc |-> exc, v |-> Zero]

Clamp(t) == Max(-ExpCap, Min(ExpCap, t))

\* 2^e for 0 <= e <= 30
RECURSIVE Pow2(_)
Pow2(e) == IF e = 0 THEN 1 ELSE 2 * Pow2(e - 1)

RECURSIVE IsPow2(_)
IsPow2(m) == IF m % 2 = 1 THEN m = 1 ELSE m > 0 /\ IsPow2(m \div 2)

CeilDiv(a, b) == -((-a) \div b)

\* for n >= d: the largest e with d * 2^e <= n
RECURSIVE LogUp(_, _, _)
LogUp(n, d, e) == IF (n \div Pow2(e + 1)) >= d THEN LogUp(n, d, e + 1) ELSE e

\* for n < d: the least e with n * 2^e >= d
RECURSIVE LogDown(_, _, _)
LogDown(n, d, e) == IF CeilDiv(d, Pow2(e)) <= n THEN e ELSE LogDown(n, d, e + 1)

\* floor(log2(n / d)) for n, d > 0
FloorLog2(n, d) == IF n >= d THEN LogUp(n, d, 0) ELSE -LogDown(n, d, 1)

\* n/d, in lowest terms and positive, is a power of two
IsPowerOfTwo(n, d) == (n = 1 /\ IsPow2(d)) \/ (d = 1 /\ IsPow2(n))

IsZero(v) == v.kind = "float" /\ v.n = 0
IsTracked(v) == v.kind = "float"
\* a fraction that is a double exactly
IsDyadic(v) == v.kind = "float" /\ IsPow2(v.d)
IsFinite(v) == v.kind \in {"float", "approx"}
\* the sign of a real that is not zero
SignOf(v) == IF v.kind = "float" THEN Sgn(v.n) ELSE v.sign
IsOddInt(v) == v.kind = "float" /\ v.d = 1 /\ v.n % 2 = 1

\* bounds of log2|v| for a finite real v that is not zero
Lo(v) == IF v.kind = "float" THEN FloorLog2(Abs(v.n), v.d) ELSE v.lo
Hi(v) ==
    IF v.kind = "float"
    THEN IF IsPowerOfTwo(Abs(v.n), v.d)
         THEN FloorLog2(Abs(v.n), v.d) ELSE FloorLog2(Abs(v.n), v.d) + 1
    ELSE v.hi

\* The doubles of sign s with 2^lo <= |x| <= 2^hi once the range of a double
\* applies: beyond it operator.pow raises OverflowError (mode "pow") and the
\* other operators give an infinity (mode "ieee"); below it the result is 0.
Doubles(s, lo, hi, mode) ==
    (IF hi >= MaxExp
     THEN {IF mode = "pow" THEN Raises("OverflowError") ELSE Returns(Inf(s))}
     ELSE {})
    \cup (IF lo < MinExp THEN {Returns(Zero)} ELSE {})
    \cup (IF lo < MaxExp /\ hi >= MinExp
          THEN LET l == Max(lo, MinExp)
                   h == Min(hi, MaxExp)
               IN  IF l = h /\ Abs(l) <= 14
                   THEN {Returns(IF l >= 0 THEN Frac(s * Pow2(l), 1)
                                 ELSE Frac(s, Pow2(-l)))}
                   ELSE {Returns(Approx(s, l, h))}
          ELSE {})

\* the double that is n/d exactly, or n/d correctly rounded (n # 0, d > 0)
Exact(n, d) ==
    LET g == GCD(Abs(n), d)
        nn == Abs(n) \div g
        dd == d \div g
        fl == FloorLog2(nn, dd)
    IN  IF nn <= MaxTracked /\ dd <= MaxTracked
        THEN {Returns(Frac(n, d))}
        ELSE {Returns(Approx(Sgn(n), fl,
                             IF IsPowerOfTwo(nn, dd) THEN fl ELSE fl + 1))}

\* a double within a few roundings of n/d (n # 0, d > 0)
Near(n, d) ==
    LET fl == FloorLog2(Abs(n), d)
    IN  {Returns(Approx(Sgn(n), fl - 1, fl + 1))}

\* operator.neg
neg(a) ==
    IF a.kind = "float" THEN {Returns(Frac(-a.n, a.d))}
    ELSE IF a.kind = "approx" THEN {Returns(Approx(-a.sign, a.lo, a.hi))}
    ELSE IF a.kind = "inf" THEN {Returns(Inf(-a.sign))}
    ELSE {Returns(a)}

\* operator.add on two finite reals that are not zero, one of them not tracked
add_finite(a, b) ==
    LET sa == SignOf(a)
        sb == SignOf(b)
        la == Lo(a)
        ha == Hi(a)
        lb == Lo(b)
        hb == Hi(b)
    IN  IF sa = sb
        THEN Doubles(sa, Max(la, lb), Max(ha, hb) + 1, "ieee")
        ELSE (IF la <= hb /\ lb <= ha THEN {Returns(Zero)} ELSE {})
             \cup (IF ha > lb
                   THEN Doubles(sa, IF la > hb THEN la - 1 ELSE MinExp, ha,
                               "ieee") \ {Returns(Zero)}
                   ELSE {})
             \cup (IF hb > la
                   THEN Doubles(sb, IF lb > ha THEN lb - 1 ELSE MinExp, hb,
                               "ieee") \ {Returns(Zero)}
                   ELSE {})

\* operator.add on two reals
add(a, b) ==
    IF a.kind = "nan" \/ b.kind = "nan" THEN {Returns(NaN)}
    ELSE IF a.kind = "inf" /\ b.kind = "inf"
    THEN IF a.sign = b.sign THEN {Returns(a)} ELSE {Returns(NaN)}
    ELSE IF a.kind = "inf" THEN {Returns(a)}
    ELSE IF b.kind = "inf" THEN {Returns(b)}
    ELSE IF IsZero(a) THEN {Returns(b)}
    ELSE IF IsZero(b) THEN {Returns(a)}
    ELSE IF IsTracked(a) /\ IsTracked(b)
    THEN LET n == a.n * b.d + b.n * a.d
             d == a.d * b.d
         IN  IF n = 0 THEN {Returns(Zero)}
             ELSE IF (IsDyadic(a) /\ IsDyadic(b)) \/ a = b THEN Exact(n, d)
             ELSE Near(n, d)
    ELSE add_finite(a, b)

\* operator.mul on two reals
mul(a, b) ==
    IF a.kind = "nan" \/ b.kind = "nan" THEN {Returns(NaN)}
    ELSE IF a.kind = "inf" \/ b.kind = "inf"
    THEN IF IsZero(a) \/ IsZero(b) THEN {Returns(NaN)}
         ELSE {Returns(Inf(SignOf(a) * SignOf(b)))}
    ELSE IF IsZero(a) \/ IsZero(b) THEN {Returns(Zero)}
    ELSE IF IsTracked(a) /\ IsTracked(b)
    THEN IF \/ IsDyadic(a) /\ IsDyadic(b)
            \/ IsPowerOfTwo(Abs(a.n), a.d)
            \/ IsPowerOfTwo(Abs(b.n), b.d)
         THEN Exact(a.n * b.n, a.d * b.d)
         ELSE Near(a.n * b.n, a.d * b.d)
    ELSE Doubles(SignOf(a) * SignOf(b), Lo(a) + Lo(b), Hi(a) + Hi(b), "ieee")

\* operator.truediv on two reals
truediv(a, b) ==
    IF IsZero(b) THEN {Raises("ZeroDivisionError")}
    ELSE IF a.kind = "nan" \/ b.kind = "nan" THEN {Returns(NaN)}
    ELSE IF a.kind = "inf"
    THEN IF b.kind = "inf" THEN {Returns(NaN)}
         ELSE {Returns(Inf(a.sign * SignOf(b)))}
    ELSE IF b.kind = "inf" THEN {Returns(Zero)}
    ELSE IF IsZero(a) THEN {Returns(Zero)}
    ELSE IF IsTracked(a) /\ IsTracked(b)
    THEN LET n == a.n * b.d * Sgn(b.n)
             d == a.d * Abs(b.n)
         IN  IF \/ IsDyadic(a) /\ IsDyadic(b)
                \/ a = b
                \/ IsPowerOfTwo(Abs(b.n), b.d)
             THEN Exact(n, d)
             ELSE Near(n, d)
    ELSE Doubles(SignOf(a) * SignOf(b), Lo(a) - Hi(b), Hi(a) - Lo(b), "ieee")

\* bounds of log2 of the magnitude of a tame value that is no real zero
MagLo(v) == IF v.kind = "complex" THEN v.lo ELSE Lo(v)
MagHi(v) == IF v.kind = "complex" THEN v.hi ELSE Hi(v)

\* all parts of v are finite and not close to overflow
Tame(v) ==
    IF v.kind = "complex" THEN v.hi <= MaxExp - ImSlack
    ELSE IsZero(v) \/ (IsFinite(v) /\ Hi(v) <= MaxExp - ImSlack)

MayBeZero(v) == IsZero(v) \/ (v.kind = "complex" /\ v.part = "any")

ComplexOf(part, lo, hi) ==
    IF hi > MaxExp - ImSlack THEN AnyComplex
    ELSE IF hi < MinExp THEN ZeroComplex
    ELSE Complex(IF lo < MinExp + ImSlack THEN "any" ELSE part,
                 Max(lo, MinExp), hi)

\* add, sub, mul and truediv with a complex operand
complex_binary(op, a, b) ==
    LET zde == IF op = "Div" /\ MayBeZero(b)
               THEN {Raises("ZeroDivisionError")} ELSE {}
        la == MagLo(a)
        ha == MagHi(a)
        lb == MagLo(b)
        hb == MagHi(b)
        z == MayBeZero(a) \/ MayBeZero(b)
        im == \/ a.kind = "complex" /\ a.part = "im" /\ b.kind # "complex"
              \/ b.kind = "complex" /\ b.part = "im" /\ a.kind # "complex"
    IN  IF op = "Div" /\ IsZero(b) THEN {Raises("ZeroDivisionError")}
        ELSE IF ~(Tame(a) /\ Tame(b)) THEN zde \cup {Returns(AnyComplex)}
        ELSE IF op \in {"Add", "Sub"}
        THEN IF IsZero(b) THEN {Returns(a)}
             ELSE IF IsZero(a) THEN {Returns(b)}
             ELSE IF Max(ha, hb) + 1 > MaxExp - ImSlack
             THEN {Returns(AnyComplex)}
             ELSE {Returns(Complex(
                      IF im THEN "im"
                      ELSE IF ~z /\ (la > hb \/ lb > ha) THEN "nz"
                      ELSE "any",
                      Max(IF ~z /\ la > hb THEN la - 1
                          ELSE IF ~z /\ lb > ha THEN lb - 1
                          ELSE MinExp, MinExp),
                      Max(ha, hb) + 1))}
        ELSE IF IsZero(a) \/ IsZero(b) THEN zde \cup {Returns(ZeroComplex)}
        ELSE IF op = "Mult"
        THEN {Returns(ComplexOf(IF z THEN "any" ELSE "nz",
                                la + lb - 1, ha + hb + 1))}
        ELSE zde \cup {Returns(ComplexOf(IF z THEN "any" ELSE "nz",
                                         la - hb - 1, ha - lb + 1))}

\* min(acc * b^k, cap + 1) for b >= 2
RECURSIVE SatPowFrom(_, _, _, _)
SatPowFrom(acc, b, k, cap) ==
    IF k = 0 THEN acc
    ELSE IF acc * b > cap THEN cap + 1
    ELSE SatPowFrom(acc * b, b, k - 1, cap)

\* min(b^k, cap + 1) for b >= 1 and k >= 0
SatPowTo(b, k, cap) == IF k = 0 \/ b = 1 THEN 1 ELSE SatPowFrom(1, b, k, cap)

SatPow(b, k) == SatPowTo(b, k, MaxTracked)

\* the least r' >= r with r'^q >= n
RECURSIVE RootFrom(_, _, _)
RootFrom(n, q, r) ==
    IF SatPowTo(r, q, n) >= n THEN r ELSE RootFrom(n, q, r + 1)

\* n is the q-th power of an integer, and that integer
Root(n, q) == IF q = 1 THEN n ELSE RootFrom(n, q, 1)
HasRoot(n, q) == SatPowTo(Root(n, q), q, n) = n

\* bounds <<tmin, tmax>> of b * log2|a| for finite reals a and b that are
\* not zero, cut to +-ExpCap
ExpRange(a, b) ==
    LET la == Lo(a)
        ha == Hi(a)
        m == Max(Abs(la), Abs(ha))
        k == Min(Abs(la), Abs(ha))
    IN  IF IsTracked(b)
        THEN LET c1 == b.n * la
                 c2 == b.n * ha
                 \* an exponent that is a rounded quotient
                 w == IF IsDyadic(b) THEN 0 ELSE 1
             IN  <<Clamp((Min(c1, c2) \div b.d) - w),
                   Clamp(CeilDiv(Max(c1, c2), b.d) + w)>>
        ELSE LET big == IF m = 0 THEN 0
                        ELSE IF b.hi > 12 THEN ExpCap
                        ELSE Min(ExpCap, Pow2(Max(b.hi, 0)) * m)
                 small == IF b.lo < 0 \/ k = 0 THEN 0
                          ELSE IF b.lo > 12 THEN ExpCap
                          ELSE Min(ExpCap, Pow2(b.lo) * k)
             IN  IF la >= 0
                 THEN IF b.sign > 0 THEN <<small, big>> ELSE <<-big, -small>>
                 ELSE IF ha <= 0
                 THEN IF b.sign > 0 THEN <<-big, -small>> ELSE <<small, big>>
                 ELSE <<-big, big>>

\* |a| ** b with the sign s, for finite reals a and b that are not zero
real_pow(s, a, b) ==
    LET exact == /\ IsDyadic(a) /\ IsDyadic(b)
                 /\ HasRoot(Abs(a.n), b.d) /\ HasRoot(a.d, b.d)
        pn == SatPow(Root(Abs(a.n), b.d), Abs(b.n))
        pd == SatPow(Root(a.d, b.d), Abs(b.n))
        t == ExpRange(a, b)
    IN  IF exact /\ pn <= MaxTracked /\ pd <= MaxTracked
              /\ (b.n > 0 \/ IsPow2(pn))
        THEN {Returns(IF b.n > 0 THEN Frac(s * pn, pd) ELSE Frac(s * pd, pn))}
        ELSE IF IsTracked(a) /\ Abs(a.n) = 1 /\ a.d = 1
        THEN {Returns(Frac(s, 1))}
        ELSE Doubles(s, t[1], t[2], "pow")

\* complex exponentiation outside the range where its result is known
WildPow ==
    {Returns(AnyComplex), Raises("OverflowError"), Raises("ZeroDivisionError")}

Comfortable(t) == -(MaxExp - ImSlack) < t[1] /\ t[2] < MaxExp - ImSlack

\* a negative finite base and an exponent that is no integer: float_pow
\* hands over to complex exponentiation
complex_pow_of_reals(a, b) ==
    LET t == ExpRange(a, b)
    IN  IF Tame(a) /\ Tame(b) /\ Hi(b) <= 12 /\ Comfortable(t)
        THEN {Returns(Complex("im", t[1] - 1, t[2] + 1))}
        ELSE WildPow

\* an exponent known by its bounds only may be an integer, or none
MayBeInteger(b) == b.hi >= 0
MayBeOdd(b) == b.hi >= 0 /\ b.lo < MantissaBits
MayBeFraction(b) == b.lo < MantissaBits - 1

\* operator.pow on two reals (float_pow of CPython)
float_pow(a, b) ==
    IF IsZero(b) THEN {Returns(One)}
    ELSE IF a.kind = "nan" THEN {Returns(NaN)}
    ELSE IF b.kind = "nan"
    THEN IF a = One THEN {Returns(One)}
         ELSE IF a.kind = "approx" /\ a.sign > 0 /\ a.lo <= 0 /\ 0 <= a.hi
         THEN {Returns(One), Returns(NaN)}
         ELSE {Returns(NaN)}
    ELSE IF b.kind = "inf"
    THEN IF IsZero(a)
         THEN IF b.sign > 0 THEN {Returns(Zero)} ELSE {Returns(Inf(1))}
         ELSE IF a.kind = "inf"
         THEN IF b.sign > 0 THEN {Returns(Inf(1))} ELSE {Returns(Zero)}
         ELSE (IF Lo(a) <= 0 /\ 0 <= Hi(a)
                  /\ (Lo(a) = Hi(a) \/ a.kind = "approx")
               THEN {Returns(One)} ELSE {})
              \cup (IF Hi(a) > 0
                    THEN {IF b.sign > 0 THEN Returns(Inf(1)) ELSE Returns(Zero)}
                    ELSE {})
              \cup (IF Lo(a) < 0
                    THEN {IF b.sign > 0 THEN Returns(Zero) ELSE Returns(Inf(1))}
                    ELSE {})
    ELSE IF a.kind = "inf"
    THEN IF SignOf(b) < 0 THEN {Returns(Zero)}
         ELSE IF IsTracked(b)
         THEN {Returns(Inf(IF IsOddInt(b) THEN a.sign ELSE 1))}
         ELSE {Returns(Inf(1))}
              \cup (IF MayBeOdd(b) THEN {Returns(Inf(a.sign))} ELSE {})
    ELSE IF IsZero(a)
    THEN IF SignOf(b) < 0 THEN {Raises("ZeroDivisionError")}
         ELSE {Returns(Zero)}
    ELSE IF SignOf(a) > 0 THEN real_pow(1, a, b)
    ELSE IF IsTracked(b)
    THEN IF b.d = 1 THEN real_pow(IF b.n % 2 = 1 THEN -1 ELSE 1, a, b)
         ELSE complex_pow_of_reals(a, b)
    ELSE (IF MayBeInteger(b) THEN real_pow(1, a, b) ELSE {})
         \cup (IF MayBeOdd(b) THEN real_pow(-1, a, b) ELSE {})
         \cup (IF MayBeFraction(b) THEN complex_pow_of_reals(a, b) ELSE {})

\* bounds of log2 |a ** b| for a complex exponent b
ArgRange(a, b) ==
    LET m == Max(Abs(MagLo(a)), Abs(MagHi(a))) + 5
        e == Min(ExpCap, Pow2(Min(Max(MagHi(b), 0), 12) + 1) * m)
    IN  <<-e, e>>

\* operator.pow with a complex operand
complex_pow(a, b) ==
    LET one == IF MayBeZero(b) THEN {Returns(OneComplex)} ELSE {}
        zero == IF ~MayBeZero(a) THEN {}
                ELSE IF b.kind = "complex" \/ SignOf(b) < 0
                THEN {Returns(ZeroComplex), Raises("ZeroDivisionError")}
                ELSE {Returns(ZeroComplex)}
        t == IF b.kind = "complex" THEN ArgRange(a, b)
             ELSE ExpRange(Approx(1, MagLo(a), MagHi(a)), b)
    IN  IF IsZero(b) THEN {Returns(OneComplex)}
        ELSE IF ~(Tame(a) /\ Tame(b)) THEN WildPow
        ELSE IF IsZero(a)
        THEN IF b.part = "im" THEN {Raises("ZeroDivisionError")}
             ELSE {Raises("ZeroDivisionError"), Returns(ZeroComplex)} \cup one
        ELSE IF MagHi(b) <= 12 /\ Comfortable(t)
        THEN {Returns(Complex(IF MayBeZero(a) THEN "any" ELSE "nz",
                              t[1] - 1, t[2] + 1))} \cup zero \cup one
        ELSE WildPow \cup zero \cup one

\* operator.pow
pow(a, b) ==
    IF a.kind = "complex" \/ b.kind = "complex" THEN complex_pow(a, b)
    ELSE float_pow(a, b)

\* _OPS[op_type](left, right): the outcomes of one operator
binary(op, a, b) ==
    IF op = "Pow" THEN pow(a, b)
    ELSE IF a.kind = "complex" \/ b.kind = "complex"
    THEN complex_binary(op, a, b)
    ELSE IF op = "Add" THEN add(a, b)
    ELSE IF op = "Sub" THEN UNION {add(a, r.v) : r \in neg(b)}
    ELSE IF op = "Mult" THEN mul(a, b)
    ELSE truediv(a, b)

\* _eval: the values a tree may have and the exceptions it may raise; the
\* left operand is evaluated first
RECURSIVE eval(_)
eval(tree) ==
    IF tree[1] = "Constant"
    THEN IF IsIntOrFloat(tree[2])
         THEN {Returns(Frac(IntValue(tree[2]), 1))}
         ELSE {Raises("ValueError")}
    ELSE IF tree[1] = "BinOp"
    THEN IF tree[2] \notin OPS THEN {Raises("ValueError")}
         ELSE UNION {IF left.exc # None THEN {left}
                     ELSE UNION {IF right.exc # None THEN {right}
                                 ELSE binary(tree[2], left.v, right.v) :
                                    right \in eval(tree[4])} :
                        left \in eval(tree[3])}
    ELSE IF tree[1] = "UnaryOp"
    THEN IF tree[2] \notin OPS THEN {Raises("ValueError")}
         ELSE UNION {IF operand.exc # None THEN {operand} ELSE neg(operand.v) :
                        operand \in eval(tree[3])}
    ELSE {Raises("ValueError")}

\* the body of the try block: ast.parse, _eval and float(...), which
\* rejects a complex number
try_block(input) ==
    IF input = <<"SyntaxError">> THEN {Raises("SyntaxError")}
    ELSE {IF r.exc = None /\ r.v.kind = "complex" THEN Raises("TypeError")
          ELSE r : r \in eval(input)}

CalcInit ==
    /\ calc_expr \in Inputs(MaxDepth)
    /\ calc_pc = "start"
    /\ calc_value = None
    /\ calc_exc = None
    /\ calc_cause = None

CalcIdle ==
    /\ calc_expr = <<"SyntaxError">>
    /\ calc_pc = "start"
    /\ calc_value = None
    /\ calc_exc = None
    /\ calc_cause = None

\* evaluate_expression: every exception of the try block becomes ValueError
evaluate_expression ==
    /\ calc_pc = "start"
    /\ \E r \in try_block(calc_expr) :
           /\ calc_cause' = r.exc
           /\ IF r.exc = None
              THEN /\ calc_pc' = "returned"
                   /\ calc_value' = r.v
                   /\ calc_exc' = None
              ELSE /\ calc_pc' = "raised"
                   /\ calc_value' = None
                   /\ calc_exc' = "ValueError"
    /\ UNCHANGED calc_expr
    /\ UNCHANGED <<graph_vars, stm_vars, qa_vars, web_vars, file_vars, vm_vars,
                   pl_vars, rr_vars>>

-----------------------------------------------------------------------------
\* Planner.plan as a component of its own

\* the elements of a JSON array: a step {goal, action}, another object, a
\* string or a number
JsonItems == {"step", "object", "string", "number"}

\* the texts of the LLM: no JSON, a JSON scalar or object, or a JSON array
JsonTexts ==
    {[json |-> k, items |-> <<>>] :
        k \in {"invalid", "object", "string", "number", "true", "null"}}
    \cup {[json |-> "array", items |-> a] : a \in SeqsUpTo(JsonItems, MaxPlanLen)}

PlannerInit ==
    /\ pl_chat \in {[raises |-> TRUE, text |-> [json |-> "invalid",
                                                 items |-> <<>>]]}
                   \cup {[raises |-> FALSE, text |-> t] : t \in JsonTexts}
    /\ pl_pc = "start"
    /\ pl_return = [type |-> None, items |-> <<>>]
    /\ pl_exc = None

PlannerIdle ==
    /\ pl_chat = [raises |-> TRUE, text |-> [json |-> "invalid", items |-> <<>>]]
    /\ pl_pc = "start"
    /\ pl_return = [type |-> None, items |-> <<>>]
    /\ pl_exc = None

\* plan returns the parsed value
plan_returns ==
    /\ pl_pc = "start"
    /\ Planner_plan(pl_chat).ok
    /\ pl_pc' = "returned"
    /\ pl_return' = [type |-> Planner_plan(pl_chat).type,
                     items |-> Planner_plan(pl_chat).plan]
    /\ UNCHANGED <<pl_chat, pl_exc>>
    /\ UNCHANGED <<graph_vars, stm_vars, qa_vars, web_vars, file_vars, vm_vars,
                   calc_vars, rr_vars>>

\* plan raises: the RuntimeError of llm.chat, or the one of the except block
plan_raises ==
    /\ pl_pc = "start"
    /\ ~Planner_plan(pl_chat).ok
    /\ pl_pc' = "raised"
    /\ pl_exc' = Planner_plan(pl_chat).exc
    /\ UNCHANGED <<pl_chat, pl_return>>
    /\ UNCHANGED <<graph_vars, stm_vars, qa_vars, web_vars, file_vars, vm_vars,
                   calc_vars, rr_vars>>

-----------------------------------------------------------------------------
\* research_review

PdfPathNames == {"a.pdf", "b.pdf"}

\* "[错误] 无法解析或摘要: <path>"
Placeholder(path) == <<"[error] cannot parse or summarise: ", path>>

\* a faulty variant of on_pdf_failure: the failure ends the request
on_pdf_failure_abort(summaries, path) ==
    [summaries |-> summaries, abort |-> TRUE]

\* the handler `except Exception as e` of the loop over req.pdf_paths
on_pdf_failure(summaries, path) ==
    [summaries |-> Append(summaries, Placeholder(path)), abort |-> FALSE]

\* one iteration of the loop: extract, chunk and summarise one PDF
summarise_pdf(summaries, path, reader, pages, llm) ==
    LET t == extract_text_from_pdf(reader, pages)
        s == summarize_chunks(chunk_text(t.text, ChunkChars), llm)
    IN  IF t.raised \/ s.raised
        THEN [on |-> on_pdf_failure(summaries, path), failed |-> TRUE,
              summary |-> <<>>]
        ELSE [on |-> [summaries |-> Append(summaries, s.summary),
                      abort |-> FALSE],
              failed |-> FALSE, summary |-> s.summary]

ReviewInit ==
    /\ rr_paths \in SeqsUpTo(PdfPathNames, MaxPaths)
    /\ rr_pc = "start"
    /\ rr_i = 0
    /\ pdf_summaries = <<>>
    /\ rr_response = <<>>
    /\ rr_status = None
    /\ rr_cause = None
    /\ rr_log = <<>>

ReviewIdle ==
    /\ rr_paths = <<>>
    /\ rr_pc = "start"
    /\ rr_i = 0
    /\ pdf_summaries = <<>>
    /\ rr_response = <<>>
    /\ rr_status = None
    /\ rr_cause = None
    /\ rr_log = <<>>

\* the request ends with HTTP 500
HTTP500(cause) ==
    /\ rr_pc' = "raised"
    /\ rr_status' = "500"
    /\ rr_cause' = cause

\* search_arxiv and search_semantic_scholar: results, or an exception
review_search ==
    /\ rr_pc = "start"
    /\ \E raises \in BOOLEAN :
        IF raises
        THEN HTTP500("search")
        ELSE /\ rr_pc' = "loop"
             /\ UNCHANGED <<rr_status, rr_cause>>
    /\ UNCHANGED <<rr_paths, rr_i, pdf_summaries, rr_response, rr_log>>
    /\ UNCHANGED <<graph_vars, stm_vars, qa_vars, web_vars, file_vars, vm_vars,
                   calc_vars, pl_vars>>

\* one iteration of `for path in req.pdf_paths`
review_pdf ==
    /\ rr_pc = "loop"
    /\ rr_i < Len(rr_paths)
    /\ \E reader \in PdfReaders, pages \in PdfPages, llm \in LLMs :
        LET path == rr_paths[rr_i + 1]
            r == summarise_pdf(pdf_summaries, path, reader, pages, llm)
        IN  /\ pdf_summaries' = r.on.summaries
            /\ rr_log' = Append(rr_log, [path |-> path, failed |-> r.failed,
                                         summary |-> r.summary])
            /\ IF r.on.abort
               THEN HTTP500("pdf") /\ UNCHANGED rr_i
               ELSE /\ rr_i' = rr_i + 1
                    /\ UNCHANGED <<rr_pc, rr_status, rr_cause>>
    /\ UNCHANGED <<rr_paths, rr_response>>
    /\ UNCHANGED <<graph_vars, stm_vars, qa_vars, web_vars, file_vars, vm_vars,
                   calc_vars, pl_vars>>

\* the loop is over: generate_review_markdown and the response, or HTTP 500
\* when the LLM call or the validation of the response raises
review_markdown ==
    /\ rr_pc = "loop"
    /\ rr_i >= Len(rr_paths)
    /\ \E raises \in BOOLEAN :
        IF raises
        THEN HTTP500("markdown") /\ UNCHANGED rr_response
        ELSE /\ rr_pc' = "returned"
             /\ rr_status' = "200"
             /\ rr_response' = pdf_summaries
             /\ UNCHANGED rr_cause
    /\ UNCHANGED <<rr_paths, rr_i, pdf_summaries, rr_log>>
    /\ UNCHANGED <<graph_vars, stm_vars, qa_vars, web_vars, file_vars, vm_vars,
                   calc_vars, pl_vars>>

-----------------------------------------------------------------------------
\* Specifications

InitGraph ==
    /\ GraphInit /\ STMIdle /\ QAIdle
    /\ WebIdle /\ FileIdle /\ VMemIdle
    /\ CalcIdle /\ PlannerIdle /\ ReviewIdle

\* every request for a planner/executor run
NextRequests == plan_execute \/ demo_main

SpecRequests == InitGraph /\ [][NextRequests]_vars

NextGraph ==
    \/ NextRequests
    \/ node_plan
    \/ node_choose_summarise
    \/ node_choose_fails
    \/ node_choose_tools
    \/ node_choose_text
    \/ node_execute
    \/ graph_recursion_error
    \/ run_return

SpecGraph == InitGraph /\ [][NextGraph]_vars

InitSTM ==
    /\ GraphInit /\ STMInit /\ QAIdle
    /\ WebIdle /\ FileIdle /\ VMemIdle
    /\ CalcIdle /\ PlannerIdle /\ ReviewIdle

NextSTM == stm_add \/ stm_get

SpecSTM == InitSTM /\ [][NextSTM]_vars

InitQA ==
    /\ GraphInit /\ STMIdle /\ QAInit
    /\ WebIdle /\ FileIdle /\ VMemIdle
    /\ CalcIdle /\ PlannerIdle /\ ReviewIdle

NextQA ==
    \/ ask_begin
    \/ ask_llm_raises
    \/ ask_tool_calls
    \/ ask_final
    \/ ask_exhausted

SpecQA == InitQA /\ [][NextQA]_vars

InitWeb ==
    /\ GraphInit /\ STMIdle /\ QAIdle
    /\ WebInit /\ FileIdle /\ VMemIdle
    /\ CalcIdle /\ PlannerIdle /\ ReviewIdle

NextWeb ==
    \/ web_start
    \/ web_step
    \/ web_loop_end
    \/ web_finally

SpecWeb == InitWeb /\ [][NextWeb]_vars

InitFile ==
    /\ GraphInit /\ STMIdle /\ QAIdle
    /\ WebIdle /\ FileInit /\ VMemIdle
    /\ CalcIdle /\ PlannerIdle /\ ReviewIdle

NextFile ==
    \/ analyze_missing
    \/ analyze_pdf_file
    \/ analyze_word_file
    \/ analyze_excel_file
    \/ analyze_text_file
    \/ analyze_unknown

SpecFile == InitFile /\ [][NextFile]_vars

InitVMem ==
    /\ GraphInit /\ STMIdle /\ QAIdle
    /\ WebIdle /\ FileIdle /\ VMemInit
    /\ CalcIdle /\ PlannerIdle /\ ReviewIdle

NextVMem == vmem_add \/ vmem_search

SpecVMem == InitVMem /\ [][NextVMem]_vars

InitCalc ==
    /\ GraphInit /\ STMIdle /\ QAIdle
    /\ WebIdle /\ FileIdle /\ VMemIdle
    /\ CalcInit /\ PlannerIdle /\ ReviewIdle

NextCalc == evaluate_expression

SpecCalc == InitCalc /\ [][NextCalc]_vars

InitPlanner ==
    /\ GraphInit /\ STMIdle /\ QAIdle
    /\ WebIdle /\ FileIdle /\ VMemIdle
    /\ CalcIdle /\ PlannerInit /\ ReviewIdle

NextPlanner == plan_returns \/ plan_raises

SpecPlanner == InitPlanner /\ [][NextPlanner]_vars

InitReview ==
    /\ GraphInit /\ STMIdle /\ QAIdle
    /\ WebIdle /\ FileIdle /\ VMemIdle
    /\ CalcIdle /\ PlannerIdle /\ ReviewInit

NextReview == review_search \/ review_pdf \/ review_markdown

SpecReview == InitReview /\ [][NextReview]_vars

Init ==
    /\ GraphInit /\ STMInit /\ QAInit
    /\ WebInit /\ FileInit /\ VMemInit
    /\ CalcInit /\ PlannerInit /\ ReviewInit

Next ==
    \/ NextGraph \/ NextSTM \/ NextQA
    \/ NextWeb \/ NextFile \/ NextVMem
    \/ NextCalc \/ NextPlanner \/ NextReview

Spec == Init /\ [][Next]_vars

-----------------------------------------------------------------------------
\* Properties of the planner/executor graph

\* the transitions of the planner/executor loop
LoopTransitions == {<<"plan", "choose">>, <<"choose", "execute">>,
                    <<"choose", "END">>, <<"execute", "choose">>}

Last(s) == s[Len(s)]

\* C1: every run asked of PlannerExecutorApp terminates with the graph at
\* END: a request that has got its outcome got the result run returned, never
\* an exception raised before the graph reached END.
C1_RunReachesEnd ==
    \A i \in 1 .. Len(requests) :
        requests[i].outcome \in {"running", "HTTP 200", "printed"}

\* C2: the graph has the three nodes plan, choose and execute, and its only
\* transitions are plan->choose, choose->execute, choose->END and
\* execute->choose: once a run is asked for, plan runs first and only once,
\* every node run after execute is choose, and END is entered only after
\* choose.
C2_GraphTransitions ==
    /\ \A i \in 1 .. Len(visited) :
        /\ visited[i] \in Nodes
        /\ (visited[i] = "plan") <=> (i = 1)
    /\ \A i \in 1 .. Len(visited) - 1 :
        <<visited[i], visited[i + 1]>> \in LoopTransitions
    /\ requests # <<>> =>
          IF visited = <<>> THEN node = "plan"
          ELSE \/ <<Last(visited), node>> \in LoopTransitions
               \/ run_status = "JSONDecodeError"
    /\ node = "END" => visited # <<>> /\ Last(visited) = "choose"

\* C3: when run returns with error = None, final_answer is not None and is
\* what the summarising LLM call, made after the plan was exhausted, returned.
C3_AnswerOnSuccess ==
    (run_status = "returned" /\ run_result.error = None)
        => /\ run_result.final_answer # None
           /\ llm_log # <<>> /\ Last(llm_log) = "summarise"

-----------------------------------------------------------------------------
\* Properties of BaseQAAgent.ask

QADone == qa_pc \in {"returned", "raised"}

\* C4: ask calls llm.function_call_chat at most max_tool_steps times, one call
\* per iteration of its loop, and then returns or raises: as long as it has
\* done neither it can take another step, also when every response asks for
\* tools.
C4_BoundedLLMCalls ==
    /\ fc_calls <= max_tool_steps
    /\ qa_step <= max_tool_steps
    /\ qa_pc = "loop" => fc_calls = qa_step
    /\ QADone \/ ENABLED NextQA

\* C4 witness: ask has returned after max_tool_steps calls that all asked for
\* tools
C4_Witness ==
    /\ qa_pc = "returned"
    /\ max_tool_steps >= 2
    /\ fc_calls = max_tool_steps
    /\ qa_result.tool_calls # <<>>

\* C5: ask returns a str or raises RuntimeError, whatever max_tool_steps is
\* and whatever the LLM responds; when the step budget runs out while the LLM
\* still asks for tools, what it returns is a str nonetheless.
C5_StrOrRuntimeError ==
    /\ qa_pc = "returned" => IsStr(qa_return)
    /\ qa_pc = "raised" => qa_exc = "RuntimeError"

\* C6: when ask returns an answer and the vector memory is enabled, vmem.add
\* has been called exactly once, with the returned answer.
C6_AnswerWritten ==
    (qa_pc = "returned" /\ IsStr(qa_return) /\ strip(qa_return) # ""
        /\ vmem_enabled)
        => vmem_adds = <<<<qa_return>>>>

-----------------------------------------------------------------------------
\* Properties of ShortTermMemory

IsSuffix(s, t) ==
    /\ Len(s) <= Len(t)
    /\ s = SubSeq(t, Len(t) - Len(s) + 1, Len(t))

\* C7: after every add, and so in every list get returns, the message list is
\* empty or the token count of its newline-joined contents is at most
\* max_tokens.
C7_WithinBudget ==
    /\ stm_messages = <<>> \/ tokens_of_messages(stm_messages) <= max_tokens
    /\ stm_got = <<>> \/ tokens_of_messages(stm_got) <= max_tokens

\* C7 witness: an add dropped two messages or more and kept one that fills
\* the budget exactly
C7_Witness ==
    /\ stm_messages # <<>>
    /\ Len(stm_added) - Len(stm_messages) >= 2
    /\ tokens_of_messages(stm_messages) = max_tokens
    /\ stm_got = stm_messages

\* C8: the stored messages are a contiguous suffix, in insertion order and
\* unmodified, of the sequence of all messages ever added.
C8_OldestFirst == IsSuffix(stm_messages, stm_added)

\* C8 witness: of three messages added, the oldest was dropped and the two
\* newest are kept
C8_Witness ==
    /\ Len(stm_added) = 3
    /\ Len(stm_messages) = 2
    /\ stm_messages[1] # stm_added[1]

-----------------------------------------------------------------------------
\* Properties of WebAgent.run

StepsOf(entries) == {entries[k].step : k \in 1 .. Len(entries)}

InStepOrder(entries) ==
    \A j, k \in 1 .. Len(entries) : j < k => entries[j].step < entries[k].step

Count(log, call) == Cardinality({k \in 1 .. Len(log) : log[k] = call})

\* C9: run attempts every step in order whatever failed before, and step i
\* leaves exactly one entry: in results (step = i) when its action succeeded,
\* in errors (naming step i) when it raised; so when run returns
\* len(results) + len(errors) = len(steps), and both lists are in step order.
C9_OneEntryPerStep ==
    /\ Len(web_attempts) = web_i
    /\ \A k \in 1 .. Len(web_attempts) : web_attempts[k].step = k - 1
    /\ Len(results) + Len(errors) = Len(web_attempts)
    /\ InStepOrder(results) /\ InStepOrder(errors)
    /\ \A k \in 1 .. Len(web_attempts) :
        /\ web_attempts[k].ok <=> (k - 1) \in StepsOf(results)
        /\ ~web_attempts[k].ok <=> (k - 1) \in StepsOf(errors)
    /\ web_pc \in {"finally", "returned"} =>
        /\ web_i = Len(steps)
        /\ Len(results) + Len(errors) = Len(steps)

\* C9 witness: run returned after a first step that failed and a second one
\* that succeeded
C9_Witness ==
    /\ web_pc = "returned"
    /\ Len(steps) = 2
    /\ StepsOf(errors) = {0}
    /\ StepsOf(results) = {1}

\* C10: browser.start is called once, before any action is executed, and
\* browser.stop exactly once, after the last attempted action and before run
\* returns, whether the actions succeeded or failed.
C10_StartThenStop ==
    /\ Count(browser_calls, "start") <= 1
    /\ Count(browser_calls, "stop") <= 1
    /\ browser_calls # <<>> => browser_calls[1] = "start"
    /\ Count(browser_calls, "stop") = 1 =>
        /\ Last(browser_calls) = "stop"
        /\ web_i = Len(steps)
    /\ web_pc = "returned" =>
        /\ Count(browser_calls, "start") = 1
        /\ Count(browser_calls, "stop") = 1

\* C10 witness: run returned after a browser action that failed, with the
\* browser started first and stopped last
C10_Witness ==
    /\ web_pc = "returned"
    /\ \E k \in 1 .. Len(errors) : errors[k].exc = "BrowserError"
    /\ Len(browser_calls) >= 3
    /\ Last(browser_calls) = "stop"

-----------------------------------------------------------------------------
\* Properties of execute_action

\* the parameters the docstring of execute_action lists for a type
ListedParams(t) ==
    IF t = "goto" THEN {"url"}
    ELSE IF t \in {"wait_for_selector", "click", "extract_text"} THEN {"selector"}
    ELSE IF t = "fill" THEN {"selector", "text"}
    ELSE IF t = "screenshot" THEN {"name"}
    ELSE {}

KnownType(t) == t \in {"goto", "wait_for_selector", "fill", "click",
                       "extract_text", "screenshot"}

\* the attempt of step k raised ValueError before any browser operation
RejectedUnrun(k) ==
    /\ web_attempts[k].exc = "ValueError"
    /\ web_attempts[k].call = None

\* C11 as stated: execute_action raises ValueError, with no browser operation
\* performed, whenever the type is unknown or a parameter listed for the type
\* is missing (url; selector; selector and text for fill; name for
\* screenshot).
C11_ValueErrorOnListed ==
    \A k \in 1 .. Len(web_attempts) :
        LET a == steps[k] IN
        (~KnownType(a.type) \/ \E p \in ListedParams(a.type) : a[p] = None)
            => RejectedUnrun(k)

\* C11 amended: execute_action raises ValueError, with no browser operation
\* performed, exactly when the type is unknown or the url of goto or the
\* selector of wait_for_selector, fill, click or extract_text is missing or
\* empty; a fill without text fills in "" and a screenshot without name is
\* named "page", and both go to the browser.
C11_ValueErrorOnRequired ==
    \A k \in 1 .. Len(web_attempts) :
        LET a == steps[k]
            rejected ==
                \/ ~KnownType(a.type)
                \/ a.type = "goto" /\ a.url \in {None, ""}
                \/ /\ a.type \in {"wait_for_selector", "fill", "click",
                                  "extract_text"}
                   /\ a.selector \in {None, ""}
        IN  /\ rejected => RejectedUnrun(k)
            /\ ~rejected => /\ web_attempts[k].call = a.type
                            /\ web_attempts[k].exc # "ValueError"

\* C11 witness: a click without selector was rejected with ValueError, and a
\* screenshot without name went to the browser
C11_Witness ==
    /\ Len(web_attempts) = 2
    /\ \E k \in 1 .. 2 :
        /\ steps[k].type = "click" /\ steps[k].selector = None
        /\ RejectedUnrun(k)
    /\ \E k \in 1 .. 2 :
        /\ steps[k].type = "screenshot" /\ steps[k].name = None
        /\ web_attempts[k].call = "screenshot"

-----------------------------------------------------------------------------
\* Properties of FileAgent.analyze

ResultKeys == {"file_path", "file_type", "overview", "entities", "errors"}

\* analyze returned the dict with its five fields and raised nothing
ReturnsDict ==
    /\ fa_pc # "raised" /\ fa_exc = None
    /\ fa_pc = "returned" => DOMAIN fa_result = ResultKeys

\* the dict analyze returns for a path that does not exist, with no
\* extractor or LLM call made
MissingPathResult ==
    (fa_pc = "returned" /\ ~fa_path.exists) =>
        /\ fa_result.errors = <<MsgMissing>>
        /\ fa_result.file_type = "unknown"
        /\ fa_result.overview = <<>>
        /\ fa_result.entities = [urls |-> {}, emails |-> {}, dates |-> {}]
        /\ fa_calls = <<>>

Reported(fs) == [i \in 1 .. Len(fs) |-> fs[i].msg]

\* C12 as stated: analyze never raises and returns the five-field dict, every
\* failure that happened is an entry of errors, and a path that does not exist
\* gives errors = ['文件不存在'], file_type 'unknown', an empty overview and
\* empty entity lists with no extractor or LLM call.
C12_EveryFailureInErrors ==
    /\ ReturnsDict
    /\ fa_pc = "returned" => Len(fa_result.errors) = Len(fa_failures)
    /\ MissingPathResult

\* C12 amended: analyze never raises and returns the five-field dict; errors
\* holds, in order, the failure of every step that raised to analyze (the
\* missing or unsupported file, the text read, an extractor, the LLM), while
\* a PDF page whose text extraction fails is skipped and reported nowhere; a
\* path that does not exist gives errors = ['文件不存在'], file_type
\* 'unknown', an empty overview and empty entity lists with no extractor or
\* LLM call.
C12_RaisedFailuresInErrors ==
    /\ ReturnsDict
    /\ fa_pc = "returned" =>
          fa_result.errors =
              Reported(SelectSeq(fa_failures, LAMBDA f : f.what # "page"))
    /\ MissingPathResult

\* C12 witness: a text file could not be read and the LLM failed as well, and
\* analyze returned with both failures in errors
C12_Witness ==
    /\ fa_pc = "returned"
    /\ fa_path.exists
    /\ fa_result.file_type = "text"
    /\ Len(fa_result.errors) = 2
    /\ fa_calls = <<"llm.chat">>

\* C12 witness of the missing path
C12_WitnessMissing == fa_pc = "returned" /\ ~fa_path.exists

-----------------------------------------------------------------------------
\* Properties of ChromaVectorMemory

\* C13: add and search never raise: add returns normally when add_texts or
\* persist fails, and search returns [] when similarity_search fails and
\* otherwise one {text, metadata} entry per document found, in the order the
\* store returned them.
C13_PassThrough ==
    /\ vm_last.exc = None
    /\ (vm_last.op = "search" /\ vm_last.outcome # "ok")
          => vm_last.returned = <<>>
    /\ (vm_last.op = "search" /\ vm_last.outcome = "ok") =>
          /\ Len(vm_last.returned) = Len(vm_last.found)
          /\ \A i \in 1 .. Len(vm_last.found) :
                vm_last.returned[i] =
                    [text |-> vm_last.found[i].page_content,
                     metadata |-> vm_last.found[i].metadata]

\* C13 witness: a persist that failed left a document in the collection but
\* not on disk, and add returned
C13_Witness ==
    /\ vm_last.op = "add"
    /\ vm_last.outcome = "persist raises"
    /\ vm_last.exc = None
    /\ Len(vm_vs.docs) > Len(vm_vs.persisted)

\* C13 witness of search: two documents came back in another order than
\* they were added in
C13_WitnessSearch ==
    /\ vm_last.op = "search" /\ vm_last.outcome = "ok"
    /\ Len(vm_last.returned) = 2
    /\ Len(vm_vs.docs) = 2
    /\ vm_last.returned[1].text = vm_vs.docs[2].page_content
    /\ vm_last.returned[1].text # vm_last.returned[2].text

-----------------------------------------------------------------------------
\* Properties of evaluate_expression

\* the tree is built from numeric constants, binary + - * / **, unary minus
\* and parentheses only (True is a name of the language, not a number)
RECURSIVE OnlyArithmetic(_)
OnlyArithmetic(tree) ==
    IF tree[1] = "Constant" THEN tree[2] \in {"0", "2"}
    ELSE IF tree[1] = "BinOp"
    THEN /\ tree[2] \in {"Add", "Sub", "Mult", "Div", "Pow"}
         /\ OnlyArithmetic(tree[3])
         /\ OnlyArithmetic(tree[4])
    ELSE IF tree[1] = "UnaryOp"
    THEN tree[2] = "USub" /\ OnlyArithmetic(tree[3])
    ELSE FALSE

\* C14: evaluate_expression returns a float or raises ValueError and nothing
\* else (division by zero and syntax errors included), and it raises
\* ValueError for every expression that contains anything but numeric
\* constants, binary + - * / **, unary minus and parentheses.
C14_FloatOrValueError ==
    /\ calc_exc \in {None, "ValueError"}
    /\ calc_pc = "returned" => calc_value.kind \in {"float", "approx", "inf", "nan"}
    /\ (calc_pc # "start" /\ ~OnlyArithmetic(calc_expr))
          => calc_pc = "raised" /\ calc_exc = "ValueError"

-----------------------------------------------------------------------------
\* Properties of Planner.plan

\* C15: plan returns a list, which is the parsed JSON array (possibly empty),
\* or raises RuntimeError; text that is no JSON, or JSON that is no array,
\* always gives RuntimeError and never a return value that is no list.
C15_ListOrRuntimeError ==
    /\ pl_pc = "returned" =>
          /\ pl_return.type = "list"
          /\ ~pl_chat.raises /\ pl_chat.text.json = "array"
          /\ pl_return.items = pl_chat.text.items
    /\ pl_pc = "raised" => pl_exc = "RuntimeError"
    /\ (pl_pc # "start" /\ pl_chat.text.json # "array")
          => pl_pc = "raised" /\ pl_exc = "RuntimeError"

\* C15 witness: the LLM answered with a JSON object and plan raised
\* RuntimeError
C15_Witness ==
    /\ pl_pc = "raised"
    /\ ~pl_chat.raises /\ pl_chat.text.json = "object"
    /\ pl_exc = "RuntimeError"

\* C15 witness of the empty array, returned as the empty list
C15_WitnessEmpty ==
    /\ pl_pc = "returned"
    /\ pl_chat.text = [json |-> "array", items |-> <<>>]
    /\ pl_return = [type |-> "list", items |-> <<>>]

-----------------------------------------------------------------------------
\* Properties of research_review

\* C16: the response holds one entry of pdf_summaries per requested path, in
\* request order: the summary of the path, or the placeholder when its
\* extraction or summarisation failed; a failing path never ends the request
\* with an error, and the paths after it are processed.
C16_OneEntryPerPath ==
    /\ rr_cause # "pdf"
    /\ rr_status = "500" => rr_cause \in {"search", "markdown"}
    /\ Len(rr_log) = rr_i
    /\ \A i \in 1 .. Len(rr_log) : rr_log[i].path = rr_paths[i]
    /\ (rr_pc = "returned" \/ rr_cause = "markdown")
          => Len(rr_log) = Len(rr_paths)
    /\ rr_pc = "returned" =>
          /\ rr_status = "200"
          /\ Len(rr_response) = Len(rr_paths)
          /\ \A i \in 1 .. Len(rr_paths) :
                rr_response[i] = IF rr_log[i].failed
                                 THEN Placeholder(rr_paths[i])
                                 ELSE rr_log[i].summary

\* C16 witness: of three paths the first two failed and the third was
\* summarised, and the response was returned
C16_Witness ==
    /\ rr_pc = "returned"
    /\ Len(rr_paths) = 3
    /\ rr_log[1].failed /\ rr_log[2].failed /\ ~rr_log[3].failed
    /\ rr_response[1] = Placeholder(rr_paths[1])
    /\ rr_response[3] = rr_log[3].summary

====
